---- MODULE Spec2Model ----
(***************************************************************************)
(* AI-CyberLog-Analyzer: the log parser (parser/logParser.js), the         *)
(* detection engine (parser/detectionEngine.js) and the risk analyzer      *)
(* (parser/aiAnalyzer.js), modelled as operators over finite batches, and  *)
(* the pipeline that applies them.                                         *)
(*                                                                         *)
(* Conventions of the model                                                *)
(*  - a LogEntry's timestamp is held as the value of                       *)
(*    new Date(entry.timestamp).getTime(): milliseconds since the epoch,   *)
(*    or NaN when the text denotes no date;                                *)
(*  - JavaScript's falsy values of a field (null, undefined, '', 0) are    *)
(*    held as "" for text fields and 0 for statusCode;                     *)
(*  - statusCode is held as its numeric value, and statusIsText tells      *)
(*    that the field is a string (a JSON text or a CSV cell) and not a     *)
(*    number, which the strict comparisons (===) tell apart;               *)
(*  - a regular expression is held as the set of the texts of the model's  *)
(*    universe that it matches.                                            *)
(***************************************************************************)
EXTENDS Integers, Sequences, FiniteSets, TLC

VARIABLES
    entries,      \* the LogEntry list given to runDetection and analyzeSession
    inThreats,    \* a threat list a caller of analyzeSession may pass
    thresholds,   \* the detection thresholds in force
    clock,        \* the time of day of the server, in milliseconds
    threats,      \* the result of runDetection
    usedThreats,  \* the threat list analyzeSession was called with
    analysis,     \* the result of analyzeSession
    upload,       \* the file of POST /upload: its lines and its name
    parsed,       \* the outcome of parseLogs on the file
    pc,           \* the next call: "parse", "detect", "analyze", or none
                  \* ("done", "failed" after an exception, "rejected" for
                  \* a file without entries, "socket" in the browser)
    messages,     \* useWebSocket: the messages state
    isConnected,  \* useWebSocket: the isConnected state
    mountedRef,   \* useWebSocket: mountedRef.current
    received,     \* every event.data handed to ws.onmessage, in arrival order
    clearedAt,    \* the length of received when clearMessages last ran
    arrivals,     \* the number of calls of ws.onmessage of this behaviour
    stream,       \* the StreamManager: isSimulating, simulationInterval, the
                  \* timers that run, and what it broadcast
    calls,        \* the requests to the StreamManager and the ticks of its
                  \* timers, in the order they were served
    db,           \* the rows of analysis_sessions, log_entries and threats
    uuids,        \* the number of session ids that uuidv4 has made
    reply         \* the answer to the last request of the log routes

vars == <<entries, inThreats, thresholds, clock, threats, usedThreats, analysis,
          upload, parsed, pc, messages, isConnected, mountedRef, received,
          clearedAt, arrivals, stream, calls, db, uuids, reply>>

hookVars == <<messages, isConnected, mountedRef, received, clearedAt, arrivals>>

serverVars == <<entries, inThreats, thresholds, clock, threats, usedThreats,
                analysis, upload, parsed>>

streamVars == <<stream, calls>>

dbVars == <<db, uuids, reply>>

(***************************************************************************)
(* JavaScript primitives                                                   *)
(***************************************************************************)

\* the value of getTime() for an Invalid Date
NaN == -1

isNaN(t) == t = NaN

Min(a, b) == IF a < b THEN a ELSE b

Max(a, b) == IF a > b THEN a ELSE b

\* Array.prototype.slice(0, n)
Slice(s, n) == SubSeq(s, 1, Min(n, Len(s)))

\* the array with the elements f[1], .., f[n], built once
Array(f) == f \o <<>>

\* Array.prototype.map
Map(s, f(_)) == Array([i \in 1..Len(s) |-> f(s[i])])

Pow10(k) == CASE k = 0 -> 1 [] k = 1 -> 10 [] k = 2 -> 100 [] k = 3 -> 1000
              [] k = 4 -> 10000 [] k = 5 -> 100000

\* the number of characters of String(n), n a non-negative integer below 2^31
NumDigits(n) ==
    IF n < 100000
    THEN CHOOSE d \in 1..5 : n < Pow10(d) /\ (d = 1 \/ n >= Pow10(d - 1))
    ELSE 5 + (CHOOSE d \in 1..5 : (n \div 100000) < Pow10(d)
                                  /\ (d = 1 \/ (n \div 100000) >= Pow10(d - 1)))

\* String(n) as a sort compares it: the digits of n padded on the right with
\* zeros to ten digits, in two halves of five, and the number of digits.
\* '0' is the least digit, so two numerals compare as their padded forms do,
\* and when these are equal one is the other followed by zeros and the
\* shorter one is the lesser
StringKey(n) ==
    LET d == NumDigits(n)
    IN IF d <= 5
       THEN <<n * Pow10(5 - d), 0, d>>
       ELSE <<n \div Pow10(d - 5), (n % Pow10(d - 5)) * Pow10(10 - d), d>>

\* String(a) < String(b) in UTF-16 code unit order, ka and kb being the keys
\* of a and b
StrLess(ka, kb) ==
    \/ ka[1] < kb[1]
    \/ (ka[1] = kb[1] /\ ka[2] < kb[2])
    \/ (ka[1] = kb[1] /\ ka[2] = kb[2] /\ ka[3] < kb[3])

\* what a sort compares of an element: "string" is the sort() with no
\* comparator, which compares the elements as strings; "number" is the
\* comparator (a, b) => a - b; "score" and "time" are the comparators of
\* computeIPReputation and buildTimeline
SortKey(mode, x) ==
    CASE mode = "string" -> StringKey(x)
      [] mode = "number" -> x
      [] mode = "score" -> x.score
      [] mode = "time" -> x.time

Less(mode, ka, kb) == IF mode = "string" THEN StrLess(ka, kb) ELSE ka < kb

\* Array.prototype.sort under a comparison: the sort is stable, so the place
\* of s[i] in the result is one more than the number of elements that go
\* before it, which are those less than it and those equal to it that stand
\* before it in s
SortBy(s, mode) ==
    LET n == Len(s)
        key == Array([i \in 1..n |-> SortKey(mode, s[i])])
        before(j, i) ==
            \/ Less(mode, key[j], key[i])
            \/ (j < i /\ ~Less(mode, key[i], key[j]))
        place == Array([i \in 1..n |->
                          Cardinality({j \in 1..n : j # i /\ before(j, i)}) + 1])
    IN Array([k \in 1..n |-> s[CHOOSE i \in 1..n : place[i] = k]])

\* Array.prototype.sort() with no comparator
DefaultSort(s) == SortBy(s, "string")

\* ascending numeric order
SortNumeric(s) == SortBy(s, "number")

\* the keys of an object filled in the order of s, as Object.entries lists
\* them: each distinct key once, in order of first insertion
Keys(s) ==
    LET firsts == SelectSeq([i \in 1..Len(s) |-> i],
                            LAMBDA i : \A j \in 1..(i - 1) : s[j] # s[i])
    IN Array([k \in 1..Len(firsts) |-> s[firsts[k]]])

RECURSIVE SumSeq(_)
SumSeq(s) == IF s = <<>> THEN 0 ELSE SumSeq(SubSeq(s, 1, Len(s) - 1)) + s[Len(s)]

\* the number of elements of s that satisfy Test
Count(s, Test(_)) == Len(SelectSeq(s, Test))

(***************************************************************************)
(* The lines of the model's files.  All dates lie in January 1970, so that *)
(* their milliseconds stay small, and the server's clock does too.         *)
(***************************************************************************)

\* a JSON object in the form JSON.stringify gives it, and one that is not
JsonCompact == "{\"ip\":\"10.0.0.1\",\"status\":401,\"message\":\"login failed\"}"

JsonSpaced == "{\"ip\": \"10.0.0.1\", \"level\": \"debug\"}"

\* a JSON object whose status is a text
JsonTextStatus == "{\"ip\":\"10.0.0.1\",\"status\":\"403\",\"path\":\"/admin\"}"

\* JSON texts that denote no object
JsonError == "{\"ip\":\"10.0.0.9\",\"status\":500,\"message\":\"upstream down\"}"

JsonNumber == "42"

JsonNull == "null"

\* what the server sends on the socket, and a text that is not JSON
WsLog1 == "{\"type\":\"log\",\"data\":1}"

WsLog2 == "{\"type\":\"log\",\"data\":2}"

WsThreat == "{\"type\":\"threat\",\"data\":1}"

WsConnection == "{\"type\":\"connection\"}"

WsPing == "ping"

\* what a client sends on the socket
WsStart == "{\"action\":\"start_simulation\"}"

WsStop == "{\"action\":\"stop_simulation\"}"

WsStatus == "{\"action\":\"status\"}"

\* a line of the combined log format, the same line followed by a request
\* time, and one whose date is none
ApacheLine == "10.0.0.1 - - [01/Jan/1970:00:01:00 +0000] \"GET /admin HTTP/1.1\" 401 512 \"-\" \"Mozilla/5.0\""

ApacheTimed == ApacheLine \o " 0.004"

ApacheBadDate == "10.0.0.1 - - [00/Xxx/1970:99:99:99 +0000] \"GET /admin HTTP/1.1\" 401 512 \"-\" \"Mozilla/5.0\""

\* syslog lines, with a process id and without, the second with a date that
\* is none
SyslogLine == "Jan  1 00:00:40 host sshd[123]: Failed password for root from 10.0.0.5"

SyslogBadDate == "Foo 99 99:99:99 host app: invalid user admin"

\* lines of no format: with an ISO date, with text of the shape of an ISO
\* date that is none, without a date, and with a date in brackets
IsoLine == "1970-01-01 00:00:40 ERROR disk failed"

IsoBadDate == "1970-13-45 99:99:99 boot"

PlainLine == "connection from 10.0.0.7 refused"

ClfLine == "[01/Jan/1970:00:01:00 +0000] fatal: worker died"

Texts == {JsonCompact, JsonSpaced, JsonTextStatus, JsonNumber, JsonNull, ApacheLine, ApacheTimed,
          ApacheBadDate, SyslogLine, SyslogBadDate, IsoLine, IsoBadDate, PlainLine,
          ClfLine}

\* a text between blanks
Pad(text) == "  " \o text \o "  "

\* the lines of a CSV file: header lines, and rows of four cells (one with a
\* comma inside quotes) and of two
CsvHeader == "timestamp,ip,status,message"

CsvHeaderQuoted == "Timestamp, \"IP\", Status, Message"

CsvRow == "1970-01-01T00:00:40Z,10.0.0.1,401,login failed"

CsvRowQuoted == "1970-01-01T00:01:00Z,10.0.0.1,500,\"disk failed, retrying\""

CsvRowShort == "10.0.0.1,401"

(***************************************************************************)
(* parser/logParser.js: the shared classifiers                             *)
(***************************************************************************)

\* texts matched by some pattern of AUTH_FAIL_PATTERNS
AUTH_FAIL_PATTERNS == {"Failed password for root", "GET /admin 401",
                       "GET /admin 403", "GET /login 401", "login failed",
                       "Failed password for root from 10.0.0.5",
                       "invalid user admin", JsonTextStatus}

\* texts matched by some pattern of SUSPICIOUS_URL_PATTERNS
SUSPICIOUS_URL_PATTERNS == {"/../../etc/passwd", "GET /../../etc/passwd 200",
                            "probe of /wp-admin seen"}

\* entry.statusCode === n
StatusIs(entry, n) == ~entry.statusIsText /\ entry.statusCode = n

isAuthFailure(entry) ==
    IF StatusIs(entry, 401) \/ StatusIs(entry, 403) THEN TRUE
    ELSE entry.message \in AUTH_FAIL_PATTERNS \/ entry.rawLine \in AUTH_FAIL_PATTERNS

isSuspiciousURL(entry) ==
    LET url == IF entry.path # "" THEN entry.path ELSE entry.message
    IN url \in SUSPICIOUS_URL_PATTERNS

(***************************************************************************)
(* parser/logParser.js: the parser.  A file's content is held as the       *)
(* sequence of its lines, content.split('\n').  An ISO date text, the      *)
(* result of toISOString, is held as its milliseconds.                     *)
(***************************************************************************)

\* the outcomes of a call: it throws, it returns null, it returns v
Thrown == [kind |-> "throw"]

Null == [kind |-> "null"]

Value(v) == [kind |-> "value", v |-> v]

\* String.prototype.trim
trim(line) ==
    IF \E t \in Texts \cup {""} : line = Pad(t)
    THEN CHOOSE t \in Texts \cup {""} : line = Pad(t)
    ELSE line

\* JSON values
Str(s) == [kind |-> "string", v |-> s]

Num(n) == [kind |-> "number", v |-> n]

Undefined == [kind |-> "undefined"]

Object(keys, fields) == [kind |-> "object", keys |-> keys, fields |-> fields]

JSON_parse(text) ==
    CASE text = JsonCompact ->
           Value(Object(<<"ip", "status", "message">>,
                        [ip |-> Str("10.0.0.1"), status |-> Num(401),
                         message |-> Str("login failed")]))
      [] text = JsonSpaced ->
           Value(Object(<<"ip", "level">>,
                        [ip |-> Str("10.0.0.1"), level |-> Str("debug")]))
      [] text = JsonTextStatus ->
           Value(Object(<<"ip", "status", "path">>,
                        [ip |-> Str("10.0.0.1"), status |-> Str("403"),
                         path |-> Str("/admin")]))
      [] text = WsLog1 ->
           Value(Object(<<"type", "data">>, [type |-> Str("log"), data |-> Num(1)]))
      [] text = WsLog2 ->
           Value(Object(<<"type", "data">>, [type |-> Str("log"), data |-> Num(2)]))
      [] text = WsThreat ->
           Value(Object(<<"type", "data">>, [type |-> Str("threat"), data |-> Num(1)]))
      [] text = WsConnection ->
           Value(Object(<<"type">>, [type |-> Str("connection")]))
      [] text = WsStart ->
           Value(Object(<<"action">>, [action |-> Str("start_simulation")]))
      [] text = WsStop ->
           Value(Object(<<"action">>, [action |-> Str("stop_simulation")]))
      [] text = WsStatus ->
           Value(Object(<<"action">>, [action |-> Str("status")]))
      [] text = JsonError ->
           Value(Object(<<"ip", "status", "message">>,
                        [ip |-> Str("10.0.0.9"), status |-> Num(500),
                         message |-> Str("upstream down")]))
      [] text = JsonNumber -> Value(Num(42))
      [] text = JsonNull -> Value([kind |-> "null"])
      [] OTHER -> Thrown

RECURSIVE members(_, _)
members(json, i) ==
    IF i > Len(json.keys) THEN ""
    ELSE LET x == json.fields[json.keys[i]]
         IN (IF i > 1 THEN "," ELSE "") \o "\"" \o json.keys[i] \o "\":"
            \o (IF x.kind = "number" THEN ToString(x.v) ELSE "\"" \o x.v \o "\"")
            \o members(json, i + 1)

JSON_stringify(json) ==
    CASE json.kind = "null" -> "null"
      [] json.kind = "number" -> ToString(json.v)
      [] json.kind = "string" -> "\"" \o json.v \o "\""
      [] json.kind = "object" -> "{" \o members(json, 1) \o "}"

\* json[key]
Get(json, key) ==
    IF json.kind = "object" /\ key \in DOMAIN json.fields THEN json.fields[key]
    ELSE Undefined

Truthy(x) ==
    CASE x.kind = "string" -> x.v # ""
      [] x.kind = "number" -> x.v # 0
      [] OTHER -> FALSE

\* json[k1] || json[k2] || ..., short of the last operand
FirstTruthy(json, keys) ==
    LET found == SelectSeq(keys, LAMBDA k : Truthy(Get(json, k)))
    IN IF found = <<>> THEN Undefined ELSE Get(json, found[1])

\* x || fallback for a field that the model's files fill with text
TextOr(x, fallback) == IF Truthy(x) /\ x.kind = "string" THEN x.v ELSE fallback

\* new Date(text).getTime()
DateValue(text) ==
    CASE text \in {"1970-01-01 00:00:40", "1970-01-01T00:00:40Z",
                   "Jan  1 00:00:40 1970"} -> 40000
      [] text \in {"01 Jan 1970 00:01:00 +0000", "01 Jan 1970 00:01:00",
                   "1970-01-01T00:01:00Z"} -> 60000
      [] OTHER -> NaN

\* Date.prototype.toISOString, a RangeError for an Invalid Date
toISOString(ms) == IF isNaN(ms) THEN Thrown ELSE Value(ms)

\* new Date(ms).getFullYear(): the times of the model lie in 1970
getFullYear(ms) == 1970

\* parseInt(text, 10) and Number(text) of a status
parseInt(text) ==
    CASE text = "401" -> 401
      [] text = "403" -> 403
      [] text = "500" -> 500
      [] OTHER -> NaN

\* the first dotted quad of a text, null held as ""
extractIP(text) ==
    CASE text \in {JsonCompact, JsonSpaced, JsonTextStatus, "{\"ip\":\"10.0.0.1\",\"level\":\"debug\"}",
                   ApacheLine, ApacheTimed, ApacheBadDate} -> "10.0.0.1"
      [] text \in {SyslogLine, "Failed password for root from 10.0.0.5"} -> "10.0.0.5"
      [] text = PlainLine -> "10.0.0.7"
      [] OTHER -> ""

\* dateStr.replace(/\//g, ' ').replace(':', ' ')
cleaned(dateStr) ==
    CASE dateStr = "01/Jan/1970:00:01:00 +0000" -> "01 Jan 1970 00:01:00 +0000"
      [] dateStr = "00/Xxx/1970:99:99:99 +0000" -> "00 Xxx 1970 99:99:99 +0000"
      [] dateStr = "01/Jan/1970:00:01:00" -> "01 Jan 1970 00:01:00"
      [] OTHER -> dateStr

parseApacheDate(dateStr, now) ==
    LET iso == toISOString(DateValue(cleaned(dateStr)))
    IN IF iso.kind = "throw" THEN now ELSE iso.v

parseSyslogDate(dateStr, now) ==
    LET year == getFullYear(now)
        iso == toISOString(DateValue(dateStr \o " " \o ToString(year)))
    IN IF iso.kind = "throw" THEN now ELSE iso.v

\* the matches of the two patterns of extractTimestamp, "" for none
isoMatch(text) ==
    CASE text = IsoLine -> "1970-01-01 00:00:40"
      [] text = IsoBadDate -> "1970-13-45 99:99:99"
      [] OTHER -> ""

clfMatch(text) ==
    CASE text = ClfLine -> "01/Jan/1970:00:01:00"
      [] OTHER -> ""

extractTimestamp(text, now) ==
    IF isoMatch(text) # "" THEN toISOString(DateValue(isoMatch(text)))
    ELSE IF clfMatch(text) # "" THEN Value(parseApacheDate(clfMatch(text), now))
    ELSE Null

getSeverityFromStatus(status) ==
    IF status >= 500 THEN "error"
    ELSE IF status = 401 \/ status = 403 THEN "warning"
    ELSE IF status >= 400 THEN "warning"
    ELSE "info"

\* the messages that include one of the words of each rank
CriticalTexts == {ClfLine}

ErrorTexts == {"login failed", "Failed password for root from 10.0.0.5", IsoLine,
               "disk failed, retrying"}

WarningTexts == {"invalid user admin"}

getSeverityFromMessage(message) ==
    IF message = "" THEN "info"
    ELSE IF message \in CriticalTexts THEN "critical"
    ELSE IF message \in ErrorTexts THEN "error"
    ELSE IF message \in WarningTexts THEN "warning"
    ELSE "info"

\* text.match(APACHE_REGEX): match[0] and the eight groups, or no match
APACHE_REGEX(text) ==
    LET groups(date) == <<"10.0.0.1", date, "GET", "/admin", "401", "512", "-",
                          "Mozilla/5.0">>
    IN CASE text \in {ApacheLine, ApacheTimed} ->
              [matched |-> TRUE,
               match |-> <<ApacheLine>> \o groups("01/Jan/1970:00:01:00 +0000")]
         [] text = ApacheBadDate ->
              [matched |-> TRUE,
               match |-> <<ApacheBadDate>> \o groups("00/Xxx/1970:99:99:99 +0000")]
         [] OTHER -> [matched |-> FALSE, match |-> <<>>]

\* text.match(SYSLOG_REGEX): match[0] and the five groups, "" for no pid
SYSLOG_REGEX(text) ==
    CASE text = SyslogLine ->
           [matched |-> TRUE,
            match |-> <<SyslogLine, "Jan  1 00:00:40", "host", "sshd", "123",
                        "Failed password for root from 10.0.0.5">>]
      [] text = SyslogBadDate ->
           [matched |-> TRUE,
            match |-> <<SyslogBadDate, "Foo 99 99:99:99", "host", "app", "",
                        "invalid user admin">>]
      [] OTHER -> [matched |-> FALSE, match |-> <<>>]

normalizeApacheLog(match, now) ==
    LET status == parseInt(match[6])
    IN [timestamp |-> parseApacheDate(match[3], now), sourceIP |-> match[2],
        method |-> match[4], path |-> match[5], statusCode |-> status,
        statusIsText |-> FALSE, userAgent |-> match[9],
        message |-> match[4] \o " " \o match[5] \o " " \o ToString(status),
        rawLine |-> match[1], severity |-> getSeverityFromStatus(status)]

normalizeSyslog(match, now) ==
    [timestamp |-> parseSyslogDate(match[2], now), sourceIP |-> extractIP(match[6]),
     method |-> match[4], path |-> "", statusCode |-> 0, statusIsText |-> FALSE,
     userAgent |-> match[3] \o "/" \o match[4]
                   \o (IF match[5] # "" THEN "[" \o match[5] \o "]" ELSE ""),
     message |-> match[6], rawLine |-> match[1],
     severity |-> getSeverityFromMessage(match[6])]

\* a TypeError for null, whose properties cannot be read
normalizeJsonLog(json, now) ==
    IF json.kind = "null" THEN Thrown
    ELSE LET time == FirstTruthy(json, <<"timestamp", "time", "date", "@timestamp">>)
             ip == FirstTruthy(json, <<"ip", "source_ip", "remote_addr", "clientIP",
                                       "client_ip">>)
             status == FirstTruthy(json, <<"status", "statusCode", "status_code",
                                           "response_code">>)
         IN Value(
            [timestamp |-> IF Truthy(time) THEN DateValue(time.v) ELSE now,
             sourceIP |-> TextOr(ip, extractIP(JSON_stringify(json))),
             method |-> TextOr(FirstTruthy(json, <<"method", "request_method", "verb">>), ""),
             path |-> TextOr(FirstTruthy(json, <<"path", "url", "request", "uri">>), ""),
             statusCode |-> IF status.kind = "number" THEN status.v
                            ELSE IF status.kind = "string" THEN parseInt(status.v)
                            ELSE 0,
             statusIsText |-> status.kind = "string",
             userAgent |-> TextOr(FirstTruthy(json, <<"user_agent", "userAgent", "agent">>), ""),
             message |-> TextOr(FirstTruthy(json, <<"message", "msg", "log">>),
                                JSON_stringify(json)),
             rawLine |-> JSON_stringify(json),
             severity |-> TextOr(FirstTruthy(json, <<"level", "severity", "log_level">>),
                                 getSeverityFromMessage(TextOr(Get(json, "message"), "")))])

\* throws what extractTimestamp throws
normalizeGenericLog(line, now) ==
    LET timestamp == extractTimestamp(line, now)
    IN IF timestamp.kind = "throw" THEN Thrown
       ELSE Value(
            [timestamp |-> IF timestamp.kind = "value" THEN timestamp.v ELSE now,
             sourceIP |-> extractIP(line), method |-> "", path |-> "",
             statusCode |-> 0, statusIsText |-> FALSE, userAgent |-> "",
             message |-> line, rawLine |-> line,
             severity |-> getSeverityFromMessage(line)])

\* what JSON.parse or normalizeJsonLog throws is caught, the rest is not
parseLogLine(line, now) ==
    IF line = "" \/ trim(line) = "" THEN Null
    ELSE LET trimmed == trim(line)
             json == JSON_parse(trimmed)
             fromJson == IF json.kind = "throw" THEN Thrown
                         ELSE normalizeJsonLog(json.v, now)
             apacheMatch == APACHE_REGEX(trimmed)
             syslogMatch == SYSLOG_REGEX(trimmed)
         IN IF fromJson.kind # "throw" THEN fromJson
            ELSE IF apacheMatch.matched
                 THEN Value(normalizeApacheLog(apacheMatch.match, now))
            ELSE IF syslogMatch.matched
                 THEN Value(normalizeSyslog(syslogMatch.match, now))
            ELSE normalizeGenericLog(trimmed, now)

\* the cells of a line, split at the commas outside quotes, the quotes dropped
parseCSVLine(line) ==
    CASE line = CsvHeader -> <<"timestamp", "ip", "status", "message">>
      [] line = CsvHeaderQuoted -> <<"Timestamp", "IP", "Status", "Message">>
      [] line = CsvRow -> <<"1970-01-01T00:00:40Z", "10.0.0.1", "401", "login failed">>
      [] line = CsvRowQuoted ->
           <<"1970-01-01T00:01:00Z", "10.0.0.1", "500", "disk failed, retrying">>
      [] line = CsvRowShort -> <<"10.0.0.1", "401">>
      [] OTHER -> <<line>>

\* line.split(',').map(h => h.trim().toLowerCase().replace(/['"]/g, ''))
headersOf(line) ==
    CASE line \in {CsvHeader, CsvHeaderQuoted} -> <<"timestamp", "ip", "status", "message">>
      [] OTHER -> parseCSVLine(line)

\* content.trim().split('\n'): the lines without the blank ones at both ends
trimmedLines(content) ==
    LET filled == {i \in 1..Len(content) : content[i] # ""}
    IN IF filled = {} THEN <<"">>
       ELSE SubSeq(content, CHOOSE i \in filled : \A j \in filled : i <= j,
                   CHOOSE i \in filled : \A j \in filled : i >= j)

parseCSVLogs(content, now) ==
    LET lines == trimmedLines(content)
        headers == headersOf(lines[1])
        objectOf(values) ==
            Object(Keys(headers),
                   [h \in {headers[i] : i \in 1..Len(headers)} |->
                       Str(values[CHOOSE i \in 1..Len(headers) :
                                      /\ headers[i] = h
                                      /\ \A j \in (i + 1)..Len(headers) : headers[j] # h])])
        rows == SelectSeq(Map(SubSeq(lines, 2, Len(lines)), parseCSVLine),
                          LAMBDA values : Len(values) = Len(headers))
    IN IF Len(lines) < 2 THEN <<>>
       ELSE Map(rows, LAMBDA values : normalizeJsonLog(objectOf(values), now).v)

\* filename.split('.').pop().toLowerCase(), '' for no filename
extOf(filename) ==
    CASE filename = "access.log" -> "log"
      [] filename = "events.CSV" -> "csv"
      [] OTHER -> ""

\* the lines that are not blank, as parseLogs filters them
nonBlank(content) == SelectSeq(content, LAMBDA l : trim(l) # "")

\* threw tells that the call ended by an exception and returned nothing
parseLogs(content, filename, now) ==
    IF extOf(filename) = "csv"
    THEN [threw |-> FALSE, entries |-> parseCSVLogs(content, now)]
    ELSE LET results == Map(nonBlank(content), LAMBDA l : parseLogLine(l, now))
         IN IF \E i \in 1..Len(results) : results[i].kind = "throw"
            THEN [threw |-> TRUE, entries |-> <<>>]
            ELSE [threw |-> FALSE,
                  entries |-> Map(SelectSeq(results, LAMBDA r : r.kind = "value"),
                                  LAMBDA r : r.v)]

(***************************************************************************)
(* parser/detectionEngine.js                                               *)
(***************************************************************************)

THRESHOLDS == [BRUTE_FORCE_COUNT |-> 5, BRUTE_FORCE_WINDOW_SEC |-> 60,
               DDOS_REQUEST_COUNT |-> 100, DDOS_WINDOW_SEC |-> 60,
               SCAN_UNIQUE_PATHS |-> 20, SCAN_WINDOW_SEC |-> 30,
               RAPID_REQUESTS |-> 50, RAPID_WINDOW_SEC |-> 10]

\* a threat; descWindow is the measured window that the description quotes
Threat(type, severity, ip, count, mitreId, descWindow, evidence) ==
    [type |-> type, severity |-> severity, sourceIP |-> ip, count |-> count,
     mitreId |-> mitreId, descWindow |-> descWindow, rawEvidence |-> evidence]

rawLineOf(e) == e.rawLine

getTime(e) == e.timestamp

\* the parseable timestamps of a group, as .map(getTime).filter(!isNaN).sort()
\* leaves them
SortedTimes(group) ==
    DefaultSort(SelectSeq(Map(group, getTime), LAMBDA t : ~isNaN(t)))

\* some run of k consecutive elements of times spans at most sec seconds
InWindow(times, k, sec) ==
    /\ Len(times) >= k
    /\ \E i \in 1..(Len(times) - k + 1) : times[i + k - 1] - times[i] <= sec * 1000

\* detectBruteForce counting the failures that have a parseable timestamp
detectBruteForce_dated(es, T) ==
    LET failed == SelectSeq(es, LAMBDA e : isAuthFailure(e) /\ e.sourceIP # "")
        ips == Keys(Map(failed, LAMBDA e : e.sourceIP))
        failuresOf(ip) == SelectSeq(failed, LAMBDA e : e.sourceIP = ip)
        inWindow(ip) == InWindow(SortedTimes(failuresOf(ip)),
                                 T.BRUTE_FORCE_COUNT, T.BRUTE_FORCE_WINDOW_SEC)
        flagged(ip) ==
            /\ Len(failuresOf(ip)) >= T.BRUTE_FORCE_COUNT
            /\ (inWindow(ip) \/ Len(failuresOf(ip)) >= T.BRUTE_FORCE_COUNT * 2)
    IN Map(SelectSeq(ips, flagged),
           LAMBDA ip : Threat("Brute Force Attack",
                              IF Len(SortedTimes(failuresOf(ip))) >= 15
                              THEN "critical" ELSE "high",
                              ip, Len(SortedTimes(failuresOf(ip))), "T1110",
                              IF inWindow(ip) THEN T.BRUTE_FORCE_WINDOW_SEC ELSE 0,
                              Map(Slice(failuresOf(ip), 5), rawLineOf)))

\* detectBruteForce with the times left in the order of the entries
detectBruteForce_unsorted(es, T) ==
    LET failed == SelectSeq(es, LAMBDA e : isAuthFailure(e) /\ e.sourceIP # "")
        ips == Keys(Map(failed, LAMBDA e : e.sourceIP))
        failuresOf(ip) == SelectSeq(failed, LAMBDA e : e.sourceIP = ip)
        times(ip) == SelectSeq(Map(failuresOf(ip), getTime), LAMBDA t : ~isNaN(t))
        inWindow(ip) == InWindow(times(ip), T.BRUTE_FORCE_COUNT, T.BRUTE_FORCE_WINDOW_SEC)
        flagged(ip) ==
            /\ Len(failuresOf(ip)) >= T.BRUTE_FORCE_COUNT
            /\ (inWindow(ip) \/ Len(failuresOf(ip)) >= T.BRUTE_FORCE_COUNT * 2)
    IN Map(SelectSeq(ips, flagged),
           LAMBDA ip : Threat("Brute Force Attack",
                              IF Len(failuresOf(ip)) >= 15 THEN "critical" ELSE "high",
                              ip, Len(failuresOf(ip)), "T1110",
                              IF inWindow(ip) THEN T.BRUTE_FORCE_WINDOW_SEC ELSE 0,
                              Map(Slice(failuresOf(ip), 5), rawLineOf)))

detectBruteForce(es, T) ==
    LET failed == SelectSeq(es, LAMBDA e : isAuthFailure(e) /\ e.sourceIP # "")
        ips == Keys(Map(failed, LAMBDA e : e.sourceIP))
        failuresOf(ip) == SelectSeq(failed, LAMBDA e : e.sourceIP = ip)
        inWindow(ip) == InWindow(SortedTimes(failuresOf(ip)),
                                 T.BRUTE_FORCE_COUNT, T.BRUTE_FORCE_WINDOW_SEC)
        flagged(ip) ==
            /\ Len(failuresOf(ip)) >= T.BRUTE_FORCE_COUNT
            /\ (inWindow(ip) \/ Len(failuresOf(ip)) >= T.BRUTE_FORCE_COUNT * 2)
        threatOf(ip) ==
            Threat("Brute Force Attack",
                   IF Len(failuresOf(ip)) >= 15 THEN "critical" ELSE "high",
                   ip, Len(failuresOf(ip)), "T1110",
                   IF inWindow(ip) THEN T.BRUTE_FORCE_WINDOW_SEC ELSE 0,
                   Map(Slice(failuresOf(ip), 5), rawLineOf))
    IN Map(SelectSeq(ips, flagged), threatOf)

\* the inner loop of detectDDoS: the number of elements counted from index i
\* on, up to the first one more than sec seconds after times[i]
CountFrom(times, i, sec) ==
    LET n == Len(times)
        late(j) == times[j] - times[i] > sec * 1000
    IN IF \E j \in i..n : late(j)
       THEN (CHOOSE j \in i..n : late(j) /\ \A k \in i..(j - 1) : ~late(k)) - i
       ELSE n - i + 1

\* the outer loop of detectDDoS: the largest of these counts, 0 when there
\* are no times
MaxInWindow(times, sec) ==
    LET counts == {CountFrom(times, i, sec) : i \in 1..Len(times)} \cup {0}
    IN CHOOSE m \in counts : \A c \in counts : m >= c

\* detectDDoS flagging on the peak of the window alone
detectDDoS_windowOnly(es, T) ==
    LET withIP == SelectSeq(es, LAMBDA e : e.sourceIP # "")
        ips == Keys(Map(withIP, LAMBDA e : e.sourceIP))
        group(ip) ==
            LET requests == SelectSeq(withIP, LAMBDA e : e.sourceIP = ip)
            IN [ip |-> ip, requests |-> requests,
                maxInWindow |->
                    IF Len(requests) >= T.DDOS_REQUEST_COUNT
                    THEN MaxInWindow(SortedTimes(requests), T.DDOS_WINDOW_SEC)
                    ELSE 0]
        flagged(g) ==
            /\ Len(g.requests) >= T.DDOS_REQUEST_COUNT
            /\ g.maxInWindow >= T.DDOS_REQUEST_COUNT
    IN Map(SelectSeq(Map(ips, group), flagged),
           LAMBDA g : Threat("DDoS Pattern", "critical", g.ip, Len(g.requests),
                             "T1498", g.maxInWindow,
                             Map(Slice(g.requests, 3), rawLineOf)))

detectDDoS(es, T) ==
    LET withIP == SelectSeq(es, LAMBDA e : e.sourceIP # "")
        ips == Keys(Map(withIP, LAMBDA e : e.sourceIP))
        requestsOf(ip) == SelectSeq(withIP, LAMBDA e : e.sourceIP = ip)
        \* the group of an address and, when it is large enough to be looked
        \* at, the peak of its requests in one window
        group(ip) ==
            LET requests == requestsOf(ip)
            IN [ip |-> ip, requests |-> requests,
                maxInWindow |->
                    IF Len(requests) >= T.DDOS_REQUEST_COUNT
                    THEN MaxInWindow(SortedTimes(requests), T.DDOS_WINDOW_SEC)
                    ELSE 0]
        flagged(g) ==
            /\ Len(g.requests) >= T.DDOS_REQUEST_COUNT
            /\ \/ g.maxInWindow >= T.DDOS_REQUEST_COUNT
               \/ Len(g.requests) >= T.DDOS_REQUEST_COUNT
        threatOf(g) ==
            Threat("DDoS Pattern", "critical", g.ip, Len(g.requests), "T1498",
                   g.maxInWindow, Map(Slice(g.requests, 3), rawLineOf))
    IN Map(SelectSeq(Map(ips, group), flagged), threatOf)

\* detectExploitAttempts with a threat for every suspicious entry
detectExploitAttempts_each(es, T) ==
    Map(SelectSeq(es, isSuspiciousURL),
        LAMBDA e : Threat("Exploit Attempt", "high",
                          IF e.sourceIP # "" THEN e.sourceIP ELSE "unknown",
                          1, "T1190", 0, <<e.rawLine>>))

detectExploitAttempts(es, T) ==
    LET ipOf(e) == IF e.sourceIP # "" THEN e.sourceIP ELSE "unknown"
        exploits == SelectSeq(es, isSuspiciousURL)
        ips == Keys(Map(exploits, ipOf))
        exploitsOf(ip) == SelectSeq(exploits, LAMBDA e : ipOf(e) = ip)
        threatOf(ip) ==
            Threat("Exploit Attempt",
                   IF Len(exploitsOf(ip)) >= 5 THEN "critical" ELSE "high",
                   ip, Len(exploitsOf(ip)), "T1190", 0,
                   Map(Slice(exploitsOf(ip), 3), rawLineOf))
    IN Map(ips, threatOf)

\* detectPortScanning counting the entries that have a path
detectPortScanning_entries(es, T) ==
    LET withPath == SelectSeq(es, LAMBDA e : e.sourceIP # "" /\ e.path # "")
        ips == Keys(Map(withPath, LAMBDA e : e.sourceIP))
        entriesOf(ip) == SelectSeq(withPath, LAMBDA e : e.sourceIP = ip)
        pathsOf(ip) == Keys(Map(entriesOf(ip), LAMBDA e : e.path))
        flagged(ip) == Len(entriesOf(ip)) >= T.SCAN_UNIQUE_PATHS
    IN Map(SelectSeq(ips, flagged),
           LAMBDA ip : Threat("Reconnaissance / Port Scanning", "medium", ip,
                              Len(entriesOf(ip)), "T1046", 0, Slice(pathsOf(ip), 10)))

\* detectPortScanning without the test of entry.sourceIP
detectPortScanning_anyIP(es, T) ==
    LET withPath == SelectSeq(es, LAMBDA e : e.path # "")
        ips == Keys(Map(withPath, LAMBDA e : e.sourceIP))
        pathsOf(ip) == Keys(Map(SelectSeq(withPath, LAMBDA e : e.sourceIP = ip),
                                LAMBDA e : e.path))
        flagged(ip) == Len(pathsOf(ip)) >= T.SCAN_UNIQUE_PATHS
    IN Map(SelectSeq(ips, flagged),
           LAMBDA ip : Threat("Reconnaissance / Port Scanning", "medium", ip,
                              Len(pathsOf(ip)), "T1046", 0, Slice(pathsOf(ip), 10)))

detectPortScanning_exact(es, T) ==
    LET withPath == SelectSeq(es, LAMBDA e : e.sourceIP # "" /\ e.path # "")
        ips == Keys(Map(withPath, LAMBDA e : e.sourceIP))
        pathsOf(ip) == Keys(Map(SelectSeq(withPath, LAMBDA e : e.sourceIP = ip),
                                LAMBDA e : e.path))
        flagged(ip) == Len(pathsOf(ip)) = T.SCAN_UNIQUE_PATHS
    IN Map(SelectSeq(ips, flagged),
           LAMBDA ip : Threat("Reconnaissance / Port Scanning", "medium", ip,
                              Len(pathsOf(ip)), "T1046", 0, Slice(pathsOf(ip), 10)))

detectPortScanning(es, T) ==
    LET withPath == SelectSeq(es, LAMBDA e : e.sourceIP # "" /\ e.path # "")
        ips == Keys(Map(withPath, LAMBDA e : e.sourceIP))
        pathsOf(ip) == Keys(Map(SelectSeq(withPath, LAMBDA e : e.sourceIP = ip),
                                LAMBDA e : e.path))
        flagged(ip) == Len(pathsOf(ip)) >= T.SCAN_UNIQUE_PATHS
        threatOf(ip) ==
            Threat("Reconnaissance / Port Scanning", "medium", ip,
                   Len(pathsOf(ip)), "T1046", 0, Slice(pathsOf(ip), 10))
    IN Map(SelectSeq(ips, flagged), threatOf)

detectSuspiciousStatusCodes(es, T) ==
    LET watched(e) ==
            /\ e.statusCode # 0
            /\ (StatusIs(e, 401) \/ StatusIs(e, 403) \/ e.statusCode >= 500)
            /\ e.sourceIP # ""
        keyOf(e) == <<e.sourceIP, e.statusCode>>
        hits == SelectSeq(es, watched)
        keys == Keys(Map(hits, keyOf))
        entriesOf(key) == SelectSeq(hits, LAMBDA e : keyOf(e) = key)
        flagged(key) == Len(entriesOf(key)) >= 10
        isAuth(key) == key[2] = 401 \/ key[2] = 403
        threatOf(key) ==
            Threat(IF isAuth(key) THEN "Unauthorized Access Attempts"
                                  ELSE "Server Error Spike",
                   IF Len(entriesOf(key)) >= 50 THEN "critical"
                   ELSE IF Len(entriesOf(key)) >= 20 THEN "high" ELSE "medium",
                   key[1], Len(entriesOf(key)),
                   IF isAuth(key) THEN "T1078" ELSE "T1190", key[2],
                   Map(Slice(entriesOf(key), 3), rawLineOf))
    IN Map(SelectSeq(keys, flagged), threatOf)

\* user agents matched by some pattern of suspiciousUAs
suspiciousUAs == {"sqlmap/1.7", "curl/8.0"}

detectAnomalousPatterns(es, T) ==
    LET ipOf(e) == IF e.sourceIP # "" THEN e.sourceIP ELSE "unknown"
        tools == SelectSeq(es, LAMBDA e : e.userAgent # "" /\ e.userAgent \in suspiciousUAs)
        ips == Keys(Map(tools, ipOf))
        toolsOf(ip) == SelectSeq(tools, LAMBDA e : ipOf(e) = ip)
        flagged(ip) == Len(toolsOf(ip)) >= 3
        threatOf(ip) ==
            Threat("Suspicious Tool Detected", "high", ip, Len(toolsOf(ip)),
                   "T1595", 0, <<toolsOf(ip)[1].userAgent>>)
    IN Map(SelectSeq(ips, flagged), threatOf)

\* texts matched by some pattern of sensitivePatterns
sensitivePatterns == {"/admin", "GET /admin 401", "GET /admin 403", "GET /admin 200",
                      "access to /config refused", JsonTextStatus}

detectUnauthorizedAccess(es, T) ==
    LET pathOf(e) == IF e.path # "" THEN e.path ELSE e.message
        accesses == SelectSeq(es, LAMBDA e : pathOf(e) \in sensitivePatterns
                                              /\ e.sourceIP # "")
        ips == Keys(Map(accesses, LAMBDA e : e.sourceIP))
        failedAccesses(ip) ==
            SelectSeq(accesses, LAMBDA e : /\ e.sourceIP = ip
                                           /\ \E n \in {401, 403, 404} : StatusIs(e, n))
        flagged(ip) == Len(failedAccesses(ip)) >= 5
        threatOf(ip) ==
            Threat("Unauthorized Admin Access", "high", ip,
                   Len(failedAccesses(ip)), "T1133", 0,
                   Map(Slice(failedAccesses(ip), 3), rawLineOf))
    IN Map(SelectSeq(ips, flagged), threatOf)

runDetection(es, T) ==
    IF Len(es) = 0 THEN <<>>
    ELSE detectBruteForce(es, T) \o detectDDoS(es, T)
         \o detectExploitAttempts(es, T) \o detectPortScanning(es, T)
         \o detectSuspiciousStatusCodes(es, T) \o detectAnomalousPatterns(es, T)
         \o detectUnauthorizedAccess(es, T)

(***************************************************************************)
(* parser/aiAnalyzer.js                                                    *)
(***************************************************************************)

MsPerHour == 3600000

\* new Date(ms).getHours(), the server's clock taken as UTC
getHours(t) == IF isNaN(t) THEN NaN ELSE (t \div MsPerHour) % 24

\* the year-month-day-hour key of buildTimeline, as the number of the hour
hourKey(t) == t \div MsPerHour

\* an object of counters keyed by the elements of s
Histogram(s) ==
    [k \in {s[i] : i \in 1..Len(s)} |-> Count(s, LAMBDA x : x = k)]

computeStats(es) ==
    LET ipList == Keys(Map(SelectSeq(es, LAMBDA e : e.sourceIP # ""),
                           LAMBDA e : e.sourceIP))
        withStatus == SelectSeq(es, LAMBDA e : e.statusCode # 0)
        hours == SelectSeq(Map(es, LAMBDA e : getHours(e.timestamp)),
                           LAMBDA h : ~isNaN(h))
    IN [totalEntries |-> Len(es),
        uniqueIPs |-> Len(ipList),
        ipList |-> ipList,
        methods |-> Histogram(Map(SelectSeq(es, LAMBDA e : e.method # ""),
                                  LAMBDA e : e.method)),
        statusCodes |-> Histogram(Map(withStatus, LAMBDA e : e.statusCode)),
        errorCount |-> Count(withStatus, LAMBDA e : e.statusCode >= 500),
        warningCount |-> Count(withStatus, LAMBDA e : StatusIs(e, 401) \/ StatusIs(e, 403)),
        hourlyDistribution |-> Histogram(hours)]

Anomaly(type, severity, subject) ==
    [type |-> type, severity |-> severity, subject |-> subject]

\* detectAnomalies with a share of one half taken for a concentration
detectAnomalies_half(es, stats) ==
    LET n == Max(stats.totalEntries, 1)
        \* errorRate = errorCount / n, compared with 0.1 and 0.3
        errorRate ==
            IF stats.errorCount * 10 > n
            THEN <<Anomaly("High Error Rate",
                           IF stats.errorCount * 10 > 3 * n THEN "critical" ELSE "high",
                           "")>>
            ELSE <<>>
        withIP == SelectSeq(es, LAMBDA e : e.sourceIP # "")
        ips == Keys(Map(withIP, LAMBDA e : e.sourceIP))
        countOf(ip) == Count(withIP, LAMBDA e : e.sourceIP = ip)
        \* ratio = count / totalEntries > 0.5
        concentration ==
            Map(SelectSeq(ips, LAMBDA ip : /\ 2 * countOf(ip) >= stats.totalEntries
                                           /\ countOf(ip) > 20),
                LAMBDA ip : Anomaly("Traffic Concentration", "high", ip))
        offHours == Count(es, LAMBDA e : /\ getHours(e.timestamp) >= 2
                                         /\ getHours(e.timestamp) <= 5)
        \* offHoursEntries.length > entries.length * 0.2
        offHoursActivity ==
            IF 5 * offHours > Len(es) /\ offHours > 10
            THEN <<Anomaly("Off-Hours Activity", "medium", "")>>
            ELSE <<>>
        timestamps == SortedTimes(es)
        burst ==
            IF /\ Len(timestamps) > 10
               /\ \E i \in 1..(Len(timestamps) - 10) :
                      timestamps[i + 10] - timestamps[i] < 1000
            THEN <<Anomaly("Request Burst", "high", "")>>
            ELSE <<>>
    IN errorRate \o concentration \o offHoursActivity \o burst

detectAnomalies(es, stats) ==
    LET n == Max(stats.totalEntries, 1)
        \* errorRate = errorCount / n, compared with 0.1 and 0.3
        errorRate ==
            IF stats.errorCount * 10 > n
            THEN <<Anomaly("High Error Rate",
                           IF stats.errorCount * 10 > 3 * n THEN "critical" ELSE "high",
                           "")>>
            ELSE <<>>
        withIP == SelectSeq(es, LAMBDA e : e.sourceIP # "")
        ips == Keys(Map(withIP, LAMBDA e : e.sourceIP))
        countOf(ip) == Count(withIP, LAMBDA e : e.sourceIP = ip)
        \* ratio = count / totalEntries > 0.5
        concentration ==
            Map(SelectSeq(ips, LAMBDA ip : /\ 2 * countOf(ip) > stats.totalEntries
                                           /\ countOf(ip) > 20),
                LAMBDA ip : Anomaly("Traffic Concentration", "high", ip))
        offHours == Count(es, LAMBDA e : /\ getHours(e.timestamp) >= 2
                                         /\ getHours(e.timestamp) <= 5)
        \* offHoursEntries.length > entries.length * 0.2
        offHoursActivity ==
            IF 5 * offHours > Len(es) /\ offHours > 10
            THEN <<Anomaly("Off-Hours Activity", "medium", "")>>
            ELSE <<>>
        timestamps == SortedTimes(es)
        burst ==
            IF /\ Len(timestamps) > 10
               /\ \E i \in 1..(Len(timestamps) - 10) :
                      timestamps[i + 10] - timestamps[i] < 1000
            THEN <<Anomaly("Request Burst", "high", "")>>
            ELSE <<>>
    IN errorRate \o concentration \o offHoursActivity \o burst

threatWeight(severity) ==
    CASE severity = "critical" -> 25
      [] severity = "high" -> 15
      [] severity = "medium" -> 8
      [] severity = "low" -> 3
      [] OTHER -> 0

anomalyWeight_none(severity) == 0

anomalyWeight(severity) ==
    CASE severity = "critical" -> 15
      [] severity = "high" -> 10
      [] severity = "medium" -> 5
      [] OTHER -> 0

\* the rounded score with errorRate = errorCount / totalEntries, which is
\* 0 / 0 = NaN for an empty batch
roundedScore_noMax(ths, anomalies, stats) ==
    LET whole == SumSeq(Map(ths, LAMBDA t : threatWeight(t.severity)))
                 + SumSeq(Map(anomalies, LAMBDA a : anomalyWeight(a.severity)))
        n == stats.totalEntries
        m == Min(100 * stats.errorCount, 30 * n)
    IN IF n = 0 THEN NaN ELSE whole + ((m + n) \div (2 * n))

\* the score before the final Math.min(.., 100)
\* score = whole + min(errorRate * 50, 15) with errorRate = errorCount / n;
\* Math.round(x) is floor(x + 1/2), so with the last term written as
\* m / (2 * n), m = min(100 * errorCount, 30 * n), the rounded sum is
\* whole + floor((m + n) / (2 * n)).  The code computes in IEEE doubles, which
\* give the same number except for errorCount / n = 0.29, where 0.29 * 50 is
\* 14.499999999999998: added to a whole part of 0 or 1 it stays below the
\* half and is rounded down, added to a larger one it becomes the half
roundedScore(ths, anomalies, stats) ==
    LET whole == SumSeq(Map(ths, LAMBDA t : threatWeight(t.severity)))
                 + SumSeq(Map(anomalies, LAMBDA a : anomalyWeight(a.severity)))
        n == Max(stats.totalEntries, 1)
        m == Min(100 * stats.errorCount, 30 * n)
    IN IF 100 * stats.errorCount = 29 * n /\ whole < 2 THEN whole + 14
       ELSE whole + ((m + n) \div (2 * n))

\* calculateRiskScore without the final Math.min
calculateRiskScore_unclamped(ths, anomalies, stats) ==
    roundedScore(ths, anomalies, stats)

calculateRiskScore(ths, anomalies, stats) ==
    Min(roundedScore(ths, anomalies, stats), 100)

\* the parts of the report that depend on the inputs
generateSummary(stats, ths, anomalies, riskScore) ==
    [riskLevel |-> IF riskScore >= 75 THEN "CRITICAL"
                   ELSE IF riskScore >= 50 THEN "HIGH"
                   ELSE IF riskScore >= 25 THEN "MEDIUM" ELSE "LOW",
     details |-> Len(Slice(ths, 5)),
     more |-> Max(Len(ths) - 5, 0),
     anomalies |-> Len(anomalies),
     mitreIds |-> Keys(SelectSeq(Map(ths, LAMBDA t : t.mitreId), LAMBDA m : m # "")),
     recommendations |-> IF riskScore >= 50 THEN 4 ELSE IF riskScore >= 25 THEN 3 ELSE 2]

\* getBreakdown with bySeverity started without its low counter
getBreakdown_noLow(ths) ==
    LET severities == Map(ths, LAMBDA t : t.severity)
    IN [byType |-> Histogram(Map(ths, LAMBDA t : t.type)),
        bySeverity |->
            [k \in {"critical", "high", "medium"}
                   \cup {severities[i] : i \in 1..Len(severities)} |->
                Count(severities, LAMBDA x : x = k)]]

getBreakdown(ths) ==
    LET severities == Map(ths, LAMBDA t : t.severity)
    IN [byType |-> Histogram(Map(ths, LAMBDA t : t.type)),
        bySeverity |->
            [k \in {"critical", "high", "medium", "low"}
                   \cup {severities[i] : i \in 1..Len(severities)} |->
                Count(severities, LAMBDA x : x = k)]]

reputationPenalty(severity) ==
    CASE severity = "critical" -> 40
      [] severity = "high" -> 25
      [] severity = "medium" -> 10
      [] OTHER -> 0

\* computeIPReputation without the normalisation of the scores
computeIPReputation_unfloored(es, ths) ==
    LET withIP == SelectSeq(es, LAMBDA e : e.sourceIP # "")
        ips == Keys(Map(withIP, LAMBDA e : e.sourceIP))
        threatsOf(ip) == SelectSeq(ths, LAMBDA t : t.sourceIP # "" /\ t.sourceIP = ip)
        record(ip) ==
            [ip |-> ip,
             totalRequests |-> Count(withIP, LAMBDA e : e.sourceIP = ip),
             errors |-> Count(withIP, LAMBDA e : e.sourceIP = ip /\ e.statusCode >= 500),
             authFailures |-> Count(withIP, LAMBDA e : /\ e.sourceIP = ip
                                                      /\ (StatusIs(e, 401) \/ StatusIs(e, 403))),
             threatCount |-> Len(threatsOf(ip)),
             score |-> 100 - SumSeq(Map(threatsOf(ip),
                                        LAMBDA t : reputationPenalty(t.severity)))]
    IN Slice(SortBy(Map(ips, record), "score"), 20)

computeIPReputation(es, ths) ==
    LET withIP == SelectSeq(es, LAMBDA e : e.sourceIP # "")
        ips == Keys(Map(withIP, LAMBDA e : e.sourceIP))
        ofIP(ip) == SelectSeq(withIP, LAMBDA e : e.sourceIP = ip)
        threatsOf(ip) == SelectSeq(ths, LAMBDA t : t.sourceIP # "" /\ t.sourceIP = ip)
        raw(ip) == 100 - SumSeq(Map(threatsOf(ip),
                                    LAMBDA t : reputationPenalty(t.severity)))
        record(ip) ==
            [ip |-> ip,
             totalRequests |-> Len(ofIP(ip)),
             errors |-> Count(ofIP(ip), LAMBDA e : e.statusCode >= 500),
             authFailures |-> Count(ofIP(ip), LAMBDA e : StatusIs(e, 401) \/ StatusIs(e, 403)),
             threatCount |-> Len(threatsOf(ip)),
             score |-> Max(0, Min(100, raw(ip)))]
    IN Slice(SortBy(Map(ips, record), "score"), 20)

\* the creation time of a threat: created_at when the row has one, else the
\* time of the call
createdAt(t, now) ==
    IF "created_at" \in DOMAIN t /\ t.created_at # 0 THEN t.created_at ELSE now

\* buildTimeline without the sort of the buckets
buildTimeline_unsorted(es, ths, now) ==
    LET dated == SelectSeq(es, LAMBDA e : ~isNaN(e.timestamp))
        keys == Keys(Map(dated, LAMBDA e : hourKey(e.timestamp)))
    IN Map(keys,
           LAMBDA key :
             [time |-> key,
              total |-> Count(dated, LAMBDA e : hourKey(e.timestamp) = key),
              errors |-> Count(dated, LAMBDA e : /\ hourKey(e.timestamp) = key
                                                 /\ e.severity \in {"error", "critical"}),
              threats |-> Count(ths, LAMBDA t : hourKey(createdAt(t, now)) = key)])

buildTimeline(es, ths, now) ==
    LET dated == SelectSeq(es, LAMBDA e : ~isNaN(e.timestamp))
        keys == Keys(Map(dated, LAMBDA e : hourKey(e.timestamp)))
        bucket(key) ==
            [time |-> key,
             total |-> Count(dated, LAMBDA e : hourKey(e.timestamp) = key),
             errors |-> Count(dated, LAMBDA e : /\ hourKey(e.timestamp) = key
                                                /\ e.severity \in {"error", "critical"}),
             threats |-> Count(ths, LAMBDA t : hourKey(createdAt(t, now)) = key)]
    IN SortBy(Map(keys, bucket), "time")

analyzeSession(es, ths, now) ==
    LET stats == computeStats(es)
        anomalies == detectAnomalies(es, stats)
        riskScore == calculateRiskScore(ths, anomalies, stats)
    IN [riskScore |-> riskScore,
        summary |-> generateSummary(stats, ths, anomalies, riskScore),
        stats |-> stats,
        anomalies |-> anomalies,
        threatBreakdown |-> getBreakdown(ths),
        ipReputation |-> computeIPReputation(es, ths),
        timeline |-> buildTimeline(es, ths, now)]

(***************************************************************************)
(* Inputs: batches of entries and lists of threats                         *)
(***************************************************************************)

\* the fields a format branch of the parser fills, for the kinds of line the
\* batches are made of; i numbers the entry within its run
Template(kind, i) ==
    CASE kind = "ok" ->
           [method |-> "GET", path |-> "/index.html", statusCode |-> 200,
            userAgent |-> "Mozilla/5.0", message |-> "GET /index.html 200",
            severity |-> "info"]
      [] kind = "fail" ->
           [method |-> "sshd", path |-> "", statusCode |-> 0,
            userAgent |-> "host/sshd", message |-> "Failed password for root",
            severity |-> "error"]
      [] kind = "exploit" ->
           [method |-> "GET", path |-> "/../../etc/passwd", statusCode |-> 200,
            userAgent |-> "Mozilla/5.0", message |-> "GET /../../etc/passwd 200",
            severity |-> "info"]
      [] kind = "probe" ->
           [method |-> "", path |-> "", statusCode |-> 0,
            userAgent |-> "", message |-> "probe of /wp-admin seen",
            severity |-> "info"]
      [] kind = "masked" ->
           [method |-> "POST", path |-> "/index.html", statusCode |-> 200,
            userAgent |-> "Mozilla/5.0", message |-> "probe of /wp-admin seen",
            severity |-> "info"]
      [] kind = "admin401" ->
           [method |-> "GET", path |-> "/admin", statusCode |-> 401,
            userAgent |-> "Mozilla/5.0", message |-> "GET /admin 401",
            severity |-> "warning"]
      [] kind = "hidden" ->
           [method |-> "POST", path |-> "/index.html", statusCode |-> 403,
            userAgent |-> "Mozilla/5.0", message |-> "access to /config refused",
            severity |-> "error"]
      [] kind = "refused" ->
           [method |-> "", path |-> "", statusCode |-> 403,
            userAgent |-> "", message |-> "access to /config refused",
            severity |-> "error"]
      [] kind = "adminOk" ->
           [method |-> "GET", path |-> "/admin", statusCode |-> 200,
            userAgent |-> "Mozilla/5.0", message |-> "GET /admin 200",
            severity |-> "info"]
      [] kind = "err500" ->
           [method |-> "GET", path |-> "/index.html", statusCode |-> 500,
            userAgent |-> "Mozilla/5.0", message |-> "GET /index.html 500",
            severity |-> "error"]
      [] kind = "err503" ->
           [method |-> "GET", path |-> "/index.html", statusCode |-> 503,
            userAgent |-> "Mozilla/5.0", message |-> "GET /index.html 503",
            severity |-> "error"]
      [] kind = "tool" ->
           [method |-> "GET", path |-> "/index.html", statusCode |-> 200,
            userAgent |-> "sqlmap/1.7", message |-> "GET /index.html 200",
            severity |-> "info"]
      [] kind = "scan" ->
           [method |-> "GET", path |-> "/p" \o ToString(i), statusCode |-> 404,
            userAgent |-> "Mozilla/5.0",
            message |-> "GET /p" \o ToString(i) \o " 404",
            severity |-> "warning"]

Entry(ip, kind, t, i) ==
    LET f == Template(kind, i)
    IN [timestamp |-> t, sourceIP |-> ip, method |-> f.method, path |-> f.path,
        statusCode |-> f.statusCode, statusIsText |-> FALSE,
        userAgent |-> f.userAgent, message |-> f.message, rawLine |-> f.message,
        severity |-> f.severity]

\* n entries of one kind from one source, the first at t0 and the next ones
\* step milliseconds apart (all without a date when t0 is NaN)
Run(ip, kind, n, t0, step) ==
    Array([i \in 1..n |->
              Entry(ip, kind, IF isNaN(t0) THEN NaN ELSE t0 + (i - 1) * step, i)])

\* the i-th source address
IP(i) == "10.0.0." \o ToString(i)

\* bounds of the batches
MaxFailures == 11

MaxRequests == 101

MaxIPs == 22

MaxCritical == 5

MaxPerSeverity == 2

\* a time in the first minutes of the epoch, where the decimal forms of the
\* milliseconds change length, and a later one, where they do not
EarlyTime == 40000

LateTime == 1000000000

\* auth failures of one source, alone or followed by entries of the same or
\* another source
BruteBatches ==
    {Run(IP(5), "fail", n, t0, step) \o Run(ip2, kind2, n2, t2, 15000) :
        n \in 0..MaxFailures, t0 \in {NaN, EarlyTime, LateTime},
        step \in {2000, 20000}, ip2 \in {IP(5), IP(9), ""},
        kind2 \in {"fail", "admin401"}, n2 \in {0, 1, 5}, t2 \in {NaN, 50000}}

\* many requests of one source, close together or far apart
DDoSBatches ==
    {Run(IP(1), "ok", n, t0, step) \o Run(ip2, "err500", n2, LateTime, 1000) :
        n \in {1, 99, 100, MaxRequests}, t0 \in {NaN, LateTime},
        step \in {0, 400, MsPerHour}, ip2 \in {IP(1), IP(2), ""},
        n2 \in {0, 1, 100}}

\* requests of one source in quick succession
MaxBurst == 12

BurstBatches ==
    {Run(IP(1), "ok", n, t0, step) :
        n \in 9..MaxBurst, t0 \in {NaN, LateTime}, step \in {50, 100, 200}}

\* one request, with each combination of an empty, a harmless and a
\* suspicious path and message that the branches of the parser fill
UrlBatches ==
    {Run(IP(1), kind, 1, LateTime, 1000) : kind \in {"ok", "exploit", "probe", "masked"}}

\* a hundred requests, some of them server errors
ErrorRateBatches ==
    {Run(IP(1), "err500", e, LateTime, 1000)
        \o Run(IP(2), "ok", 100 - e, LateTime + 100000, 1000) : e \in {1, 3, 29, 30, 31}}

\* one source with responses of three watched status codes, 9 or 10 of each
StatusBatches ==
    {Run(IP(1), "err500", a, LateTime, 1000) \o Run(IP(1), "err503", b, LateTime, 1000)
        \o Run(IP(1), "admin401", c, LateTime, 1000) \o Run("", "err500", 10, LateTime, 1000) :
        a \in {9, 10}, b \in {9, 10}, c \in {9, 10}}

\* 6 failures of one source 2 seconds apart, and 14 to 16 failures of
\* another, most of them without a date
SeverityBatches ==
    {Run(IP(5), "fail", 6, LateTime, 2000) \o Run(IP(9), "fail", n, NaN, 1000)
        \o Run(IP(9), "fail", 5, t, 2000) :
        n \in (MaxFailures - 2)..MaxFailures, t \in {NaN, LateTime}}

\* requests of one source for a restricted endpoint, named in the path or
\* in the message only, refused or answered
AdminBatches ==
    {Run(IP(1), kind, n, LateTime, 1000) \o Run(IP(1), "adminOk", 5, LateTime, 1000)
        \o Run(IP(2), "admin401", n2, LateTime, 1000) :
        kind \in {"admin401", "hidden", "refused"}, n \in {4, 5}, n2 \in {0, 4, 5}}

\* suspicious requests of two sources, next to a harmless one
ExploitBatches ==
    {Run(IP(1), "exploit", n, LateTime, 1000) \o Run(IP(2), "probe", n2, LateTime, 1000)
        \o Run(IP(3), "ok", 1, LateTime, 1000) :
        n \in {0, 1, 4, 5, 6}, n2 \in {0, 1, 5}}

\* requests of one source for 19, 20 or 25 paths, some of the paths asked
\* for twice, and 25 requests of another source for one path
ScanBatches ==
    {Run(IP(5), "scan", n, LateTime, 1000) \o Run(IP(5), "scan", n2, LateTime, 1000)
        \o Run(IP(6), "ok", 25, LateTime, 1000) \o Run(IP(7), "refused", n2, LateTime, 1000) :
        n \in {19, 20, 25}, n2 \in {0, 5}}

\* 20 to 22 requests of one source, next to as many of another source or
\* of none
ConcentrationBatches ==
    {Run(IP(1), "ok", n, LateTime, 1000) \o Run(ip2, "ok", n2, LateTime, 1000) :
        n \in {20, 21, 22}, ip2 \in {IP(2), ""}, n2 \in {0, 20, 21, 22}}

Kinds == {"ok", "fail", "exploit", "probe", "admin401", "err500", "tool", "scan"}

\* entries that carry no source address
NoIPBatches ==
    {Run("", kind1, n1, LateTime, 1000) \o Run("", kind2, n2, LateTime, 1000) :
        kind1 \in Kinds, n1 \in {0, 1, 3, 10, 20, 100},
        kind2 \in Kinds, n2 \in {0, 3, 5}}

\* per entries from each of k sources, every third source failing
ManyIPs(k, per) ==
    Array([j \in 1..(k * per) |->
              LET i == ((j - 1) % k) + 1
              IN Entry(IP(i), IF i % 3 = 0 THEN "err500" ELSE "ok",
                       LateTime + j * 1000, j)])

IPBatches == {ManyIPs(k, per) : k \in {0, 1, 3, 20, MaxIPs}, per \in {1, 2}}

\* a threat as a caller may pass it to analyzeSession
GivenThreat(severity, j) ==
    Threat("Exploit Attempt", severity,
           IF j % 3 = 0 THEN "unknown" ELSE IP(1 + (j % 2)), 1, "T1190", 0, <<>>)

Repeat(x, n) == Array([i \in 1..n |-> x])

\* c critical, h high, m medium, l low threats and o threats of a severity
\* that is none of the four
ThreatList(c, h, m, l, o) ==
    LET severities == Repeat("critical", c) \o Repeat("high", h)
                      \o Repeat("medium", m) \o Repeat("low", l)
                      \o Repeat("info", o)
    IN Array([j \in 1..Len(severities) |-> GivenThreat(severities[j], j)])

ThreatLists ==
    {ThreatList(c, h, m, l, o) :
        c \in 0..MaxCritical, h \in 0..MaxPerSeverity, m \in 0..MaxPerSeverity,
        l \in 0..1, o \in 0..1}

(***************************************************************************)
(* The calls: runDetection on a batch, then analyzeSession on the batch    *)
(* and on either the threats just detected (POST /upload) or a list the    *)
(* caller supplies                                                         *)
(***************************************************************************)

NoAnalysis == [riskScore |-> 0]

NoFile == [content |-> <<>>, originalname |-> ""]

NotParsed == [threw |-> FALSE, entries |-> <<>>]

\* bound of the files
MaxLines == 2

\* the lines of a log file, some of them between blanks, and of a CSV file
LogLines == Texts \cup {Pad(JsonCompact), Pad(PlainLine), Pad(""), ""}

CsvLines == {CsvHeader, CsvHeaderQuoted, CsvRow, CsvRowQuoted, CsvRowShort, ""}

\* the sequences of at most n elements of S
SeqUpTo(S, n) == UNION {[1..k -> S] : k \in 0..n}

\* log files under a name with the extension log or none, and CSV files,
\* empty or of a header line and rows
Files ==
    [content : SeqUpTo(LogLines, MaxLines), originalname : {"access.log", ""}]
    \cup [content : {<<>>} \cup {<<h>> \o rows : h \in {CsvHeader, CsvHeaderQuoted},
                                                  rows \in SeqUpTo(CsvLines, MaxLines)},
          originalname : {"events.CSV"}]

\* new StreamManager(wss): no timer, nothing broadcast; a timer is named by
\* a number, and simulationInterval is 0 for null
NoStream ==
    /\ stream = [isSimulating |-> FALSE, simulationInterval |-> 0, timers |-> {},
                 sent |-> <<>>]
    /\ calls = <<>>

\* the tables as db.exec creates them, and no request answered
NoRows ==
    /\ db = [analysis_sessions |-> <<>>, log_entries |-> <<>>, threats |-> <<>>]
    /\ uuids = 0
    /\ reply = [route |-> "", sessionId |-> 0, status |-> 0, riskScore |-> 0]

\* no page of the browser holds the hook
NoSocket ==
    /\ messages = <<>>
    /\ isConnected = FALSE
    /\ mountedRef = FALSE
    /\ received = <<>>
    /\ clearedAt = 0
    /\ arrivals = 0

\* entries of three hours, the latest first, and one without a date
TimelineBatches ==
    {Run(IP(1), "err500", n, LateTime, MsPerHour) \o Run(IP(1), "ok", 1, NaN, 0)
        \o Run(IP(2), "fail", n2, EarlyTime, 1000) : n \in {1, 2}, n2 \in {0, 2}}

\* threats as the threats table returns them, with the time of their
\* creation: in the hour of the first entries, of the last ones, or in
\* an hour without entries
StoredThreats ==
    {Array([j \in 1..Len(at) |->
               [GivenThreat("high", j) EXCEPT !.count = j] @@ [created_at |-> at[j]]]) :
        at \in SeqUpTo({EarlyTime, LateTime, 5 * MsPerHour}, MaxPerSeverity)}

\* files of 9 or 10 records of one source and one status: rows of a CSV
\* file with the status 401, and JSON lines with the status "403" of /admin
StatusFiles ==
    {[content |-> <<CsvHeader>> \o Array([i \in 1..n |-> CsvRow]),
      originalname |-> "events.CSV"] : n \in {9, 10}}
    \cup {[content |-> Array([i \in 1..n |-> JsonTextStatus]),
           originalname |-> "access.log"] : n \in {9, 10}}

Start(batches, lists, configs) ==
    /\ entries \in batches
    /\ inThreats \in lists
    /\ thresholds \in configs
    /\ clock = LateTime
    /\ threats = <<>>
    /\ usedThreats = <<>>
    /\ analysis = NoAnalysis
    /\ upload = NoFile
    /\ parsed = NotParsed
    /\ pc = "detect"
    /\ NoSocket
    /\ NoStream
    /\ NoRows

\* an upload: a file of the given lines is to be parsed
Upload(files, configs) ==
    /\ entries = <<>>
    /\ inThreats = <<>>
    /\ thresholds \in configs
    /\ clock = LateTime
    /\ threats = <<>>
    /\ usedThreats = <<>>
    /\ analysis = NoAnalysis
    /\ upload \in files
    /\ parsed = NotParsed
    /\ pc = "parse"
    /\ NoSocket
    /\ NoStream
    /\ NoRows

Init ==
    \/ Start(BruteBatches \cup DDoSBatches \cup NoIPBatches \cup BurstBatches
                 \cup UrlBatches \cup ErrorRateBatches \cup StatusBatches
                 \cup SeverityBatches \cup AdminBatches \cup ExploitBatches
                 \cup ScanBatches \cup ConcentrationBatches,
             {<<>>}, {THRESHOLDS})
    \/ Start(IPBatches, ThreatLists, {THRESHOLDS})
    \/ Start(TimelineBatches, StoredThreats, {THRESHOLDS})
    \/ Upload(Files \cup StatusFiles, {THRESHOLDS})

\* POST /upload as far as the check for an empty result
ParseLogs ==
    /\ pc = "parse"
    /\ parsed' = parseLogs(upload.content, upload.originalname, clock)
    /\ entries' = parsed'.entries
    /\ pc' = IF parsed'.threw THEN "failed"
             ELSE IF Len(parsed'.entries) = 0 THEN "rejected"
             ELSE "detect"
    /\ UNCHANGED <<inThreats, thresholds, clock, threats, usedThreats, analysis, upload>>
    /\ UNCHANGED <<hookVars, streamVars, dbVars>>

RunDetection ==
    /\ pc = "detect"
    /\ threats' = runDetection(entries, thresholds)
    /\ pc' = "analyze"
    /\ UNCHANGED <<entries, inThreats, thresholds, clock, usedThreats, analysis,
                   upload, parsed>>
    /\ UNCHANGED <<hookVars, streamVars, dbVars>>

AnalyzeSession ==
    /\ pc = "analyze"
    /\ \E ths \in {threats, inThreats} :
          /\ usedThreats' = ths
          /\ analysis' = analyzeSession(entries, ths, clock)
    /\ pc' = "done"
    /\ UNCHANGED <<entries, inThreats, thresholds, clock, threats, upload, parsed>>
    /\ UNCHANGED <<hookVars, streamVars, dbVars>>

Next == ParseLogs \/ RunDetection \/ AnalyzeSession

Spec == Init /\ [][Next]_vars

(***************************************************************************)
(* The thresholds as a configuration: the same calls under thresholds      *)
(* other than those of the source                                          *)
(***************************************************************************)

Configs ==
    [BRUTE_FORCE_COUNT : {4, 5}, BRUTE_FORCE_WINDOW_SEC : {30, 60},
     DDOS_REQUEST_COUNT : {99, 100}, DDOS_WINDOW_SEC : {30, 60},
     SCAN_UNIQUE_PATHS : {19, 20}, SCAN_WINDOW_SEC : {30},
     RAPID_REQUESTS : {50}, RAPID_WINDOW_SEC : {10}]

ThresholdBatches ==
    {Run(IP(5), "fail", n, t0, step) \o Run(IP(9), "scan", n2, LateTime, 1000) :
        n \in {4, 5, 9, 10}, t0 \in {NaN, LateTime},
        step \in {2000, 10000, 20000}, n2 \in {0, 19, 20}}
    \cup {Run(IP(1), "ok", n, LateTime, 400) : n \in {98, 99, 100}}
    \cup {Run(IP(5), "fail", 3, 1000000, 1000000) \o Run(IP(5), "fail", 2, 200, 399800)}

InitThresholds ==
    \/ Start(ThresholdBatches, {<<>>}, Configs)
    \/ Upload([content : {<<ApacheLine, SyslogLine>>}, originalname : {"access.log"}],
              Configs)

SpecThresholds == InitThresholds /\ [][Next]_vars

(***************************************************************************)
(* The useWebSocket hook of the client                                     *)
(***************************************************************************)

maxMessages == 500

\* bound of the calls of ws.onmessage in one behaviour
MaxArrivals == 3

\* what event.data may be
Datas == {WsLog1, WsLog2, WsThreat, WsConnection, WsPing, JsonNull}

\* updated.slice(-n), for n > 0
SliceLast(updated, n) ==
    IF Len(updated) > n THEN SubSeq(updated, Len(updated) - n + 1, Len(updated))
    ELSE updated

\* the updater that keeps the first maxMessages
setMessages_first(prev, data) ==
    LET updated == Append(prev, data)
    IN IF Len(updated) > maxMessages THEN SubSeq(updated, 1, maxMessages) ELSE updated

\* the updater given to setMessages
setMessages(prev, data) ==
    LET updated == Append(prev, data)
    IN IF Len(updated) > maxMessages THEN SliceLast(updated, maxMessages) ELSE updated

\* the body of try in ws.onmessage: the next messages
onmessage(prev, eventData) ==
    LET parsed_ == JSON_parse(eventData)
    IN IF parsed_ = Thrown THEN prev
       ELSE LET data == parsed_.v
            IN IF data.kind = "null" THEN prev
               ELSE IF Get(data, "type") = Str("log") \/ Get(data, "type") = Str("threat")
                    THEN setMessages(prev, data)
                    ELSE prev

\* n log and threat messages of the server, as texts
Stream(n) == Array([i \in 1..n |-> <<WsLog1, WsThreat, WsLog2>>[(i % 3) + 1]])

\* the lengths of the list the hook starts a behaviour with
Backlogs == {0, 1, maxMessages - 2, maxMessages - 1, maxMessages}

\* the hook is mounted and has received n log and threat messages
InitWebSocket ==
    /\ entries = <<>>
    /\ inThreats = <<>>
    /\ thresholds = THRESHOLDS
    /\ clock = LateTime
    /\ threats = <<>>
    /\ usedThreats = <<>>
    /\ analysis = NoAnalysis
    /\ upload = NoFile
    /\ parsed = NotParsed
    /\ pc = "socket"
    /\ \E n \in Backlogs :
          /\ received = Stream(n)
          /\ messages = Map(Stream(n), LAMBDA text : JSON_parse(text).v)
    /\ isConnected \in BOOLEAN
    /\ mountedRef = TRUE
    /\ clearedAt = 0
    /\ arrivals = 0
    /\ NoStream
    /\ NoRows

\* ws.onopen
OnOpen ==
    /\ pc = "socket"
    /\ ~isConnected
    /\ isConnected' = (IF mountedRef THEN TRUE ELSE isConnected)
    /\ UNCHANGED <<messages, mountedRef, received, clearedAt, arrivals, pc>>
    /\ UNCHANGED <<serverVars, streamVars, dbVars>>

\* ws.onmessage, of a socket that was opened
OnMessage ==
    /\ pc = "socket"
    /\ isConnected
    /\ arrivals < MaxArrivals
    /\ \E eventData \in Datas :
          /\ received' = Append(received, eventData)
          /\ messages' = (IF ~mountedRef THEN messages
                          ELSE onmessage(messages, eventData))
    /\ arrivals' = arrivals + 1
    /\ UNCHANGED <<isConnected, mountedRef, clearedAt, pc>>
    /\ UNCHANGED <<serverVars, streamVars, dbVars>>

\* ws.onclose
OnClose ==
    /\ pc = "socket"
    /\ isConnected
    /\ isConnected' = (IF mountedRef THEN FALSE ELSE isConnected)
    /\ UNCHANGED <<messages, mountedRef, received, clearedAt, arrivals, pc>>
    /\ UNCHANGED <<serverVars, streamVars, dbVars>>

\* clearMessages
ClearMessages ==
    /\ pc = "socket"
    /\ mountedRef
    /\ messages' = <<>>
    /\ clearedAt' = Len(received)
    /\ UNCHANGED <<isConnected, mountedRef, received, arrivals, pc>>
    /\ UNCHANGED <<serverVars, streamVars, dbVars>>

\* the cleanup of the effect
Unmount ==
    /\ pc = "socket"
    /\ mountedRef
    /\ mountedRef' = FALSE
    /\ UNCHANGED <<messages, isConnected, received, clearedAt, arrivals, pc>>
    /\ UNCHANGED <<serverVars, streamVars, dbVars>>

NextWebSocket == OnOpen \/ OnMessage \/ OnClose \/ ClearMessages \/ Unmount

SpecWebSocket == InitWebSocket /\ [][NextWebSocket]_vars

(***************************************************************************)
(* websocket/streamManager.js: the simulation and the requests that start  *)
(* and stop it.  Node runs each handler to its end before the next one.    *)
(***************************************************************************)

\* bound of the requests and ticks of one behaviour
MaxCalls == 5

\* broadcast(data), data named by its type and status
broadcast(sm, data) == [sm EXCEPT !.sent = Append(@, data)]

\* setInterval: a timer that no timer of the manager's past is
NewTimer(sm) == Len(sm.sent) + 1

\* startSimulation without the test of isSimulating
startSimulation_again(sm) ==
    LET started == broadcast([sm EXCEPT !.isSimulating = TRUE], "simulation started")
    IN [started EXCEPT !.simulationInterval = NewTimer(started),
                       !.timers = @ \cup {NewTimer(started)}]

startSimulation(sm) ==
    IF sm.isSimulating THEN sm
    ELSE LET started == broadcast([sm EXCEPT !.isSimulating = TRUE], "simulation started")
         IN [started EXCEPT !.simulationInterval = NewTimer(started),
                            !.timers = @ \cup {NewTimer(started)}]

stopSimulation(sm) ==
    IF ~sm.isSimulating THEN sm
    ELSE LET cleared ==
                 IF sm.simulationInterval # 0
                 THEN [sm EXCEPT !.timers = @ \ {sm.simulationInterval},
                                 !.simulationInterval = 0]
                 ELSE sm
         IN broadcast([cleared EXCEPT !.isSimulating = FALSE], "simulation stopped")

\* ws.on('message'): a text that is not JSON, or null, is ignored
onClientMessage(sm, data) ==
    LET msg == JSON_parse(data)
    IN IF msg = Thrown \/ msg.v.kind = "null" THEN sm
       ELSE LET action == Get(msg.v, "action")
                begun == IF action = Str("start_simulation") THEN startSimulation(sm)
                         ELSE sm
            IN IF action = Str("stop_simulation") THEN stopSimulation(begun) ELSE begun

\* what a client may send
ClientDatas == {WsStart, WsStop, WsStatus, WsPing, JsonNull}

\* the server runs, no page and no upload are looked at
InitStream ==
    /\ entries = <<>>
    /\ inThreats = <<>>
    /\ thresholds = THRESHOLDS
    /\ clock = LateTime
    /\ threats = <<>>
    /\ usedThreats = <<>>
    /\ analysis = NoAnalysis
    /\ upload = NoFile
    /\ parsed = NotParsed
    /\ pc = "stream"
    /\ NoSocket
    /\ NoStream
    /\ NoRows

\* ws.on('message')
ClientMessage ==
    /\ pc = "stream"
    /\ Len(calls) < MaxCalls
    /\ \E data \in ClientDatas :
          /\ stream' = onClientMessage(stream, data)
          /\ calls' = Append(calls, data)
    /\ UNCHANGED <<serverVars, hookVars, dbVars, pc>>

\* POST /api/stream/start
StreamStart ==
    /\ pc = "stream"
    /\ Len(calls) < MaxCalls
    /\ stream' = startSimulation(stream)
    /\ calls' = Append(calls, "POST /api/stream/start")
    /\ UNCHANGED <<serverVars, hookVars, dbVars, pc>>

\* POST /api/stream/stop
StreamStop ==
    /\ pc = "stream"
    /\ Len(calls) < MaxCalls
    /\ stream' = stopSimulation(stream)
    /\ calls' = Append(calls, "POST /api/stream/stop")
    /\ UNCHANGED <<serverVars, hookVars, dbVars, pc>>

\* a timer that runs fires: a log is broadcast, and now and then a threat
Tick ==
    /\ pc = "stream"
    /\ Len(calls) < MaxCalls
    /\ stream.timers # {}
    /\ \E withThreat \in BOOLEAN :
          stream' = IF withThreat THEN broadcast(broadcast(stream, "log"), "threat")
                    ELSE broadcast(stream, "log")
    /\ calls' = Append(calls, "tick")
    /\ UNCHANGED <<serverVars, hookVars, dbVars, pc>>

NextStream == ClientMessage \/ StreamStart \/ StreamStop \/ Tick

SpecStream == InitStream /\ [][NextStream]_vars

(***************************************************************************)
(* server/db.js: the tables and the log routes.  A handler runs to its end *)
(* before the next request is served.  uuidv4 is held as a counter, and a  *)
(* statement's run throws when SQLite refuses it (a value it cannot bind,  *)
(* a full disk); a transaction that throws is rolled back.                 *)
(***************************************************************************)

\* bound of the session ids of one behaviour
MaxUploads == 2

\* the statements of the upload whose run may throw
Faults == {"none", "INSERT INTO log_entries", "INSERT INTO threats",
           "UPDATE analysis_sessions"}

\* the uploaded files: empty, with a date that is none, of one server
\* error, of six failed logins, of two harmless lines, and a CSV file
RouteFiles ==
    {[content |-> <<>>, originalname |-> "access.log"],
     [content |-> <<IsoBadDate>>, originalname |-> "access.log"],
     [content |-> <<JsonError>>, originalname |-> "access.log"],
     [content |-> Array([i \in 1..6 |-> ApacheLine]), originalname |-> "access.log"],
     [content |-> <<SyslogLine, JsonSpaced>>, originalname |-> "access.log"],
     [content |-> <<CsvHeader, CsvRow>>, originalname |-> "events.CSV"]}

\* SELECT * FROM table WHERE session_id = ?
Where(rows, sessionId) == SelectSeq(rows, LAMBDA r : r.session_id = sessionId)

\* SELECT * FROM analysis_sessions WHERE id = ?
SessionOf(d, sessionId) == SelectSeq(d.analysis_sessions, LAMBDA r : r.id = sessionId)

\* insertEntry.run: the columns of a row of log_entries; status_code is
\* an INTEGER column, which holds the text of a number as the number
EntryRow(sessionId, entry) ==
    [session_id |-> sessionId, timestamp |-> entry.timestamp,
     source_ip |-> entry.sourceIP, method |-> entry.method, path |-> entry.path,
     status_code |-> entry.statusCode, user_agent |-> entry.userAgent,
     message |-> entry.message, raw_line |-> entry.rawLine,
     severity |-> entry.severity]

\* insertThreat.run: the columns of a row of threats
ThreatRow(sessionId, threat, now) ==
    [session_id |-> sessionId, type |-> threat.type, severity |-> threat.severity,
     description |-> threat.descWindow, source_ip |-> threat.sourceIP,
     count |-> threat.count, mitre_id |-> threat.mitreId,
     raw_evidence |-> threat.rawEvidence, created_at |-> now]

\* a row of log_entries as analyzeSession reads it: the properties that
\* the row has under the entry's names; sourceIP, statusCode, userAgent
\* and rawLine are undefined
ReadEntry(row) ==
    [timestamp |-> row.timestamp, sourceIP |-> "", method |-> row.method,
     path |-> row.path, statusCode |-> 0, statusIsText |-> FALSE, userAgent |-> "",
     message |-> row.message, rawLine |-> "", severity |-> row.severity]

\* a row of threats as analyzeSession reads it: sourceIP, mitreId and
\* rawEvidence are undefined
ReadThreat(row) ==
    [type |-> row.type, severity |-> row.severity, sourceIP |-> "",
     count |-> row.count, mitreId |-> "", descWindow |-> row.description,
     rawEvidence |-> "", created_at |-> row.created_at]

Answer(route, sessionId, status, riskScore) ==
    [route |-> route, sessionId |-> sessionId, status |-> status,
     riskScore |-> riskScore]

\* POST /upload of a file, with the id that uuidv4 returns; result, found
\* and analysed are what parseLogs, runDetection and analyzeSession return
\* to the handler
postUpload(d, sessionId, file, result, found, analysed, fault, now) ==
    LET route == "POST /upload"
        failed(rows) == [db |-> rows, reply |-> Answer(route, sessionId, 500, 0)]
        items == result.entries
        created ==
            [d EXCEPT !.analysis_sessions =
                Append(@, [id |-> sessionId, filename |-> file.originalname,
                           total_lines |-> Len(items), threat_count |-> 0,
                           risk_score |-> 0, status |-> "processing"])]
        inserted ==
            [created EXCEPT !.log_entries =
                @ \o Map(items, LAMBDA e : EntryRow(sessionId, e))]
        reported ==
            [inserted EXCEPT !.threats =
                @ \o Map(found, LAMBDA t : ThreatRow(sessionId, t, now))]
        updated ==
            [reported EXCEPT !.analysis_sessions =
                Map(@, LAMBDA r :
                       IF r.id = sessionId
                       THEN [r EXCEPT !.threat_count = Len(found),
                                      !.risk_score = analysed.riskScore,
                                      !.status = "completed"]
                       ELSE r)]
    IN IF result.threw THEN failed(d)
       ELSE IF Len(items) = 0
            THEN [db |-> d, reply |-> Answer(route, sessionId, 400, 0)]
       ELSE IF fault = "INSERT INTO log_entries" THEN failed(created)
       ELSE IF fault = "INSERT INTO threats" /\ Len(found) > 0 THEN failed(inserted)
       ELSE IF fault = "UPDATE analysis_sessions" THEN failed(reported)
       ELSE [db |-> updated,
             reply |-> Answer(route, sessionId, 200, analysed.riskScore)]

\* GET /analysis/:sessionId
getAnalysis(d, sessionId, now) ==
    LET route == "GET /analysis"
    IN IF SessionOf(d, sessionId) = <<>> THEN Answer(route, sessionId, 404, 0)
       ELSE Answer(route, sessionId, 200,
                   analyzeSession(Map(Where(d.log_entries, sessionId), ReadEntry),
                                  Map(Where(d.threats, sessionId), ReadThreat),
                                  now).riskScore)

\* the delete of the session's row alone
deleteAll_session(d, sessionId) ==
    [d EXCEPT !.analysis_sessions = SelectSeq(@, LAMBDA r : r.id # sessionId)]

\* deleteAll of DELETE /session/:sessionId
deleteAll(d, sessionId) ==
    [threats |-> SelectSeq(d.threats, LAMBDA r : r.session_id # sessionId),
     log_entries |-> SelectSeq(d.log_entries, LAMBDA r : r.session_id # sessionId),
     analysis_sessions |-> SelectSeq(d.analysis_sessions, LAMBDA r : r.id # sessionId)]

\* DELETE /session/:sessionId
deleteSession(d, sessionId, fault) ==
    LET route == "DELETE /session"
    IN IF SessionOf(d, sessionId) = <<>>
       THEN [db |-> d, reply |-> Answer(route, sessionId, 404, 0)]
       ELSE IF fault THEN [db |-> d, reply |-> Answer(route, sessionId, 500, 0)]
       ELSE [db |-> deleteAll(d, sessionId),
             reply |-> Answer(route, sessionId, 200, 0)]

\* the ids that a request may name: those of the sessions, and one more
SessionIds == 1..(MaxUploads + 1)

\* the server runs with empty tables
InitRoutes ==
    /\ entries = <<>>
    /\ inThreats = <<>>
    /\ thresholds = THRESHOLDS
    /\ clock = LateTime
    /\ threats = <<>>
    /\ usedThreats = <<>>
    /\ analysis = NoAnalysis
    /\ upload = NoFile
    /\ parsed = NotParsed
    /\ pc = "routes"
    /\ NoSocket
    /\ NoStream
    /\ NoRows

PostUpload ==
    /\ pc = "routes"
    /\ uuids < MaxUploads
    /\ uuids' = uuids + 1
    /\ \E file \in RouteFiles, fault \in Faults :
          \E result \in {parseLogs(file.content, file.originalname, clock)} :
            \E found \in {runDetection(result.entries, THRESHOLDS)} :
              \E analysed \in {analyzeSession(result.entries, found, clock)} :
                LET done == postUpload(db, uuids', file, result, found, analysed,
                                       fault, clock)
                IN db' = done.db /\ reply' = done.reply
    /\ UNCHANGED <<serverVars, hookVars, streamVars, pc>>

GetAnalysis ==
    /\ pc = "routes"
    /\ \E sessionId \in SessionIds : reply' = getAnalysis(db, sessionId, clock)
    /\ UNCHANGED <<serverVars, hookVars, streamVars, pc, db, uuids>>

DeleteSession ==
    /\ pc = "routes"
    /\ \E sessionId \in SessionIds, fault \in BOOLEAN :
          LET done == deleteSession(db, sessionId, fault)
          IN db' = done.db /\ reply' = done.reply
    /\ UNCHANGED <<serverVars, hookVars, streamVars, pc, uuids>>

NextRoutes == PostUpload \/ GetAnalysis \/ DeleteSession

SpecRoutes == InitRoutes /\ [][NextRoutes]_vars

(***************************************************************************)
(* Properties                                                              *)
(***************************************************************************)

Detected == pc \in {"analyze", "done"}

Analyzed == pc = "done"

Range(s) == {s[i] : i \in 1..Len(s)}

SourceIPs == Range(Map(entries, LAMBDA e : e.sourceIP)) \ {""}

ThreatsOfType(type) == SelectSeq(threats, LAMBDA t : t.type = type)

\* C1: the riskScore that analyzeSession returns is an integer from 0 to 100,
\* whatever the entries and whatever the threats and their severities
C1_RiskScoreInRange ==
    Analyzed => analysis.riskScore \in 0..100

\* a call whose score before the clamp is above 100
C1_Witness ==
    /\ Analyzed
    /\ roundedScore(usedThreats, analysis.anomalies, analysis.stats) > 100
    /\ \E i \in 1..Len(usedThreats) :
          usedThreats[i].severity \notin {"critical", "high", "medium", "low"}

NoSourceIP == \A i \in 1..Len(entries) : entries[i].sourceIP = ""

FailuresOf(ip) == SelectSeq(entries, LAMBDA e : isAuthFailure(e) /\ e.sourceIP = ip)

ParseableTimes(group) == SelectSeq(Map(group, getTime), LAMBDA t : ~isNaN(t))

\* C3: detectBruteForce reports a source exactly when its auth failures
\* number at least 10, or at least 5 with some 5 consecutive ones of their
\* parseable timestamps, in ascending numeric order, at most 60 seconds apart
C3_BruteForceIff ==
    Detected =>
        \A ip \in SourceIPs :
            (\E i \in 1..Len(threats) : /\ threats[i].type = "Brute Force Attack"
                                         /\ threats[i].sourceIP = ip)
            <=> \/ Len(FailuresOf(ip)) >= 10
                \/ /\ Len(FailuresOf(ip)) >= 5
                   /\ InWindow(SortNumeric(ParseableTimes(FailuresOf(ip))), 5, 60)

RequestsOf(ip) == SelectSeq(entries, LAMBDA e : e.sourceIP = ip)

C5_DDoSOnlyInWindow ==
    Detected =>
        \A t \in Range(ThreatsOfType("DDoS Pattern")) :
            MaxInWindow(SortNumeric(ParseableTimes(RequestsOf(t.sourceIP))), 60) > 100

CountThresholds == {"BRUTE_FORCE_COUNT", "DDOS_REQUEST_COUNT", "SCAN_UNIQUE_PATHS",
                    "RAPID_REQUESTS"}

WindowThresholds == {"BRUTE_FORCE_WINDOW_SEC", "DDOS_WINDOW_SEC", "SCAN_WINDOW_SEC",
                     "RAPID_WINDOW_SEC"}

Laxer(T2, T1) ==
    /\ T2.BRUTE_FORCE_COUNT = T1.BRUTE_FORCE_COUNT
    /\ T2.DDOS_REQUEST_COUNT <= T1.DDOS_REQUEST_COUNT
    /\ T2.SCAN_UNIQUE_PATHS <= T1.SCAN_UNIQUE_PATHS
    /\ T2.RAPID_REQUESTS <= T1.RAPID_REQUESTS
    /\ \A k \in WindowThresholds : T2[k] >= T1[k]

PenaltyOf(ip) ==
    SumSeq(Map(SelectSeq(usedThreats, LAMBDA t : t.sourceIP = ip),
               LAMBDA t : CASE t.severity = "critical" -> 40
                            [] t.severity = "high" -> 25
                            [] t.severity = "medium" -> 10
                            [] OTHER -> 0))

\* C7: computeIPReputation returns at most 20 records, in order of
\* non-decreasing score, each score from 0 to 100 and equal to 100 less 40
\* per critical, 25 per high and 10 per medium threat of the record's ip,
\* floored at 0
C7_IPReputation ==
    Analyzed =>
        LET rep == analysis.ipReputation
        IN /\ Len(rep) <= 20
           /\ \A i \in 1..Len(rep) :
                 /\ rep[i].score \in 0..100
                 /\ rep[i].score = Max(0, 100 - PenaltyOf(rep[i].ip))
           /\ \A i \in 1..(Len(rep) - 1) : rep[i].score <= rep[i + 1].score

\* more than 20 sources, one of them floored at 0 and listed before the
\* sources without threats
C7_Witness ==
    /\ Analyzed
    /\ Cardinality(SourceIPs) > 20
    /\ Len(analysis.ipReputation) = 20
    /\ \E i \in 1..20 : /\ analysis.ipReputation[i].score = 0
                          /\ PenaltyOf(analysis.ipReputation[i].ip) > 100
    /\ analysis.ipReputation[20].score = 100

Severities == {"critical", "high", "medium", "low"}

Parsed == pc # "parse"

\* C9: parseLogs returns a list of entries and never throws, whatever the
\* lines of the file, whichever branch handles a line and whether or not
\* the date found in it is one
C9_ParseLogsNeverThrows ==
    ~parsed.threw

\* C10: each entry that parseLogs produces from a file that is no CSV file
\* has as rawLine the line it was produced from, character for character
C10_RawLineIsTheLine ==
    (Parsed /\ extOf(upload.originalname) # "csv" /\ ~parsed.threw)
    => /\ Len(parsed.entries) = Len(nonBlank(upload.content))
       /\ \A i \in 1..Len(parsed.entries) :
             parsed.entries[i].rawLine = nonBlank(upload.content)[i]

\* the four severities of a LogEntry
EntrySeverities == {"info", "warning", "error", "critical"}

\* C11: every entry that parseLogs produces, in every format branch, has a
\* severity that is one of info, warning, error and critical
C11_SeverityOfFour ==
    Parsed => \A i \in 1..Len(parsed.entries) :
                 parsed.entries[i].severity \in EntrySeverities

\* C12: every entry that parseLogs produces has a statusCode that is null or
\* an integer, never a text, also when it comes from a CSV row or from a
\* JSON record whose status is given as text
C12_StatusCodeIsNumber ==
    Parsed => \A i \in 1..Len(parsed.entries) : ~parsed.entries[i].statusIsText

\* C13: runDetection of the empty batch is the empty list, and
\* analyzeSession of the empty batch and no threats has riskScore 0, stats
\* with totalEntries, uniqueIPs, errorCount and warningCount 0, no
\* anomalies, the four severity buckets 0, and an empty ipReputation and
\* timeline
C13_EmptyBatch ==
    /\ (Detected /\ entries = <<>>) => threats = <<>>
    /\ (Analyzed /\ entries = <<>> /\ usedThreats = <<>>)
       => /\ analysis.riskScore = 0
          /\ analysis.stats.totalEntries = 0
          /\ analysis.stats.uniqueIPs = 0
          /\ analysis.stats.errorCount = 0
          /\ analysis.stats.warningCount = 0
          /\ analysis.anomalies = <<>>
          /\ \A sev \in Severities : analysis.threatBreakdown.bySeverity[sev] = 0
          /\ analysis.ipReputation = <<>>
          /\ analysis.timeline = <<>>

\* the empty batch, detected and analyzed with no threats
C13_Witness ==
    Analyzed /\ entries = <<>> /\ threats = <<>> /\ usedThreats = <<>>

\* the timestamps of the batch that denote a date, in ascending order
EntryTimes == SortNumeric(ParseableTimes(entries))

\* C14: detectAnomalies reports one Request Burst anomaly, of severity high,
\* exactly when some 10 consecutive ones of the parseable timestamps, in
\* ascending order, span less than 1 second, and none otherwise
C14_RequestBurstIff ==
    Analyzed =>
        SelectSeq(analysis.anomalies, LAMBDA a : a.type = "Request Burst")
        = (IF \E i \in 1..(Len(EntryTimes) - 9) :
                  EntryTimes[i + 9] - EntryTimes[i] < 1000
           THEN <<Anomaly("Request Burst", "high", "")>>
           ELSE <<>>)

\* C15: isSuspiciousURL of an entry is true exactly when its path or its
\* message matches a suspicious-URL pattern, whether or not either is empty
C15_PathOrMessage ==
    Detected =>
        \A i \in 1..Len(entries) :
            isSuspiciousURL(entries[i])
            <=> (\/ entries[i].path \in SUSPICIOUS_URL_PATTERNS
                 \/ entries[i].message \in SUSPICIOUS_URL_PATTERNS)

\* the sum of n per element of s whose severity is sev
Weigh(s, sev, n) == n * Len(SelectSeq(s, LAMBDA x : x.severity = sev))

\* C16: riskScore is min(100, round(S)), S being 25 per critical, 15 per
\* high, 8 per medium and 3 per low threat, 15 per critical, 10 per high and
\* 5 per medium anomaly, and min(50 * errorCount / max(totalEntries, 1), 15);
\* other severities add nothing.  With S = whole + part / n, round(S) is
\* floor((2 * (whole * n + part) + n) / (2 * n))
C16_RiskScoreFormula ==
    Analyzed =>
        LET whole == Weigh(usedThreats, "critical", 25) + Weigh(usedThreats, "high", 15)
                     + Weigh(usedThreats, "medium", 8) + Weigh(usedThreats, "low", 3)
                     + Weigh(analysis.anomalies, "critical", 15)
                     + Weigh(analysis.anomalies, "high", 10)
                     + Weigh(analysis.anomalies, "medium", 5)
            n == Max(analysis.stats.totalEntries, 1)
            part == Min(50 * analysis.stats.errorCount, 15 * n)
        IN analysis.riskScore = Min(100, (2 * (whole * n + part) + n) \div (2 * n))

\* an error rate of 0.29, where the last term is half an integer, with
\* threats and anomalies that add to the score
C16_Witness ==
    /\ Analyzed
    /\ analysis.stats.totalEntries = 100
    /\ analysis.stats.errorCount = 29
    /\ usedThreats # <<>>
    /\ analysis.anomalies # <<>>
    /\ analysis.riskScore < 100

\* rearrangements of a list: reversed, rotated by one, the elements at even
\* places first, and, for a short list, every permutation
Reverse(s) == Array([i \in 1..Len(s) |-> s[Len(s) + 1 - i]])

Rotate(s) == IF s = <<>> THEN s ELSE Tail(s) \o <<Head(s)>>

EvensFirst(s) ==
    LET n == Len(s)
    IN Array([i \in 1..n |-> IF i <= n \div 2 THEN s[2 * i] ELSE s[2 * (i - n \div 2) - 1]])

MaxPermuted == 5

Rearranged(s) ==
    {Reverse(s), Rotate(s), EvensFirst(s)}
    \cup (IF Len(s) <= MaxPermuted
          THEN {Array([i \in 1..Len(s) |-> s[f[i]]]) : f \in Permutations(1..Len(s))}
          ELSE {})

\* what two results of runDetection are compared by
ThreatKeys(ths) ==
    {<<ths[i].type, ths[i].sourceIP, ths[i].severity, ths[i].count, ths[i].mitreId>> :
        i \in 1..Len(ths)}

\* C17: for every permutation of the batch, runDetection returns the same
\* set of threats, compared by type, sourceIP, severity, count and mitreId
\* (stated of the result when runDetection has just returned it)
C17_OrderIndependent ==
    pc = "analyze" =>
        \A es \in Rearranged(entries) :
            ThreatKeys(runDetection(es, thresholds)) = ThreatKeys(threats)

\* a batch of two sources, with threats of two rules, and a rearrangement
\* that changes the order of the threats
C17_Witness ==
    /\ pc = "analyze"
    /\ Cardinality(ThreatKeys(threats)) >= 2
    /\ Cardinality(SourceIPs) >= 2
    /\ \E es \in Rearranged(entries) : runDetection(es, thresholds) # threats

\* the log and threat messages among the texts received
Tracked(datas) ==
    Map(SelectSeq(datas, LAMBDA text : text \in {WsLog1, WsLog2, WsThreat}),
        LAMBDA text : JSON_parse(text).v)

\* what was received since clearMessages last ran, all of it if it never did
SinceCleared == SubSeq(received, clearedAt + 1, Len(received))

MessageTypes == {Get(messages[i], "type").v : i \in 1..Len(messages)}

\* xs is the last n elements of ys, all of ys if it has fewer
IsLastOf(xs, ys, n) ==
    /\ Len(xs) = Min(Len(ys), n)
    /\ \A i \in 1..Len(xs) : xs[i] = ys[Len(ys) - Len(xs) + i]

\* C18: the messages of a mounted hook are at most 500, all of type log or
\* threat, and exactly the last 500 log and threat messages received, in
\* the order of arrival: of all that was received as long as clearMessages
\* was not called, of what was received since it last was otherwise
C18_LastMessages ==
    (pc = "socket" /\ mountedRef) =>
        /\ Len(messages) <= 500
        /\ MessageTypes \subseteq {"log", "threat"}
        /\ clearedAt = 0 => IsLastOf(messages, Tracked(received), 500)
        /\ IsLastOf(messages, Tracked(SinceCleared), 500)

\* more than 500 log and threat messages were received, and others among
\* them, by a hook that was never cleared
C18_Witness ==
    /\ pc = "socket" /\ mountedRef
    /\ clearedAt = 0
    /\ Len(Tracked(received)) > 500
    /\ Len(Tracked(received)) < Len(received)
    /\ Len(messages) = 500

\* the key of an entry for the exploit rule and the tool rule
KeyOf(e) == IF e.sourceIP # "" THEN e.sourceIP ELSE "unknown"

\* the number of threats of a type (and, for the status rule, of a status
\* code) reported for a source
Reported(type, ip) ==
    Len(SelectSeq(threats, LAMBDA t : t.type = type /\ t.sourceIP = ip))

ReportedStatus(ip, code) ==
    Len(SelectSeq(threats,
                  LAMBDA t : /\ t.type \in {"Unauthorized Access Attempts",
                                             "Server Error Spike"}
                             /\ t.sourceIP = ip /\ t.descWindow = code))

One(trigger) == IF trigger THEN 1 ELSE 0

StatusCodes == Range(Map(entries, LAMBDA e : e.statusCode)) \ {0}

\* C19: the result of runDetection holds exactly one threat for each rule
\* and key that meets the trigger of the rule, and none for any other key;
\* the key is the source, and for the status rule the source and the
\* status code
C19_OnePerKey ==
    Detected =>
        /\ \A ip \in SourceIPs \cup {"unknown"} :
              /\ Reported("Brute Force Attack", ip)
                    = One(\/ Len(FailuresOf(ip)) >= 10
                          \/ /\ Len(FailuresOf(ip)) >= 5
                             /\ InWindow(SortNumeric(ParseableTimes(FailuresOf(ip))),
                                         5, 60))
              /\ Reported("DDoS Pattern", ip) = One(Len(RequestsOf(ip)) >= 100)
              /\ Reported("Exploit Attempt", ip)
                    = One(Count(entries, LAMBDA e : isSuspiciousURL(e) /\ KeyOf(e) = ip) >= 1)
              /\ Reported("Reconnaissance / Port Scanning", ip)
                    = One(Cardinality({e.path : e \in Range(RequestsOf(ip))} \ {""}) >= 20)
              /\ Reported("Suspicious Tool Detected", ip)
                    = One(Count(entries, LAMBDA e : /\ e.userAgent \in suspiciousUAs
                                                     /\ KeyOf(e) = ip) >= 3)
              /\ Reported("Unauthorized Admin Access", ip)
                    = One(Count(RequestsOf(ip),
                                LAMBDA e : /\ (IF e.path # "" THEN e.path ELSE e.message)
                                                \in sensitivePatterns
                                           /\ e.statusCode \in {401, 403, 404}) >= 5)
              /\ \A code \in StatusCodes :
                    ReportedStatus(ip, code)
                      = One(/\ code \in {401, 403} \/ code >= 500
                            /\ Count(RequestsOf(ip), LAMBDA e : e.statusCode = code) >= 10)
        /\ \A i \in 1..Len(threats) :
              /\ threats[i].sourceIP \in SourceIPs \cup {"unknown"}
              /\ threats[i].type \in {"Unauthorized Access Attempts", "Server Error Spike"}
                    => threats[i].descWindow \in StatusCodes

\* the failures of a source are 6, with timestamps 2 seconds apart
SixFailures(ip) ==
    /\ Len(FailuresOf(ip)) = 6
    /\ \A i \in 1..6 : ~isNaN(getTime(FailuresOf(ip)[i]))
    /\ \A i \in 1..5 :
          getTime(FailuresOf(ip)[i + 1]) - getTime(FailuresOf(ip)[i]) = 2000

\* C20: every Brute Force threat names the source of its group, counts all
\* the auth failures of that source, those without a parseable timestamp
\* too, has mitreId T1110, and severity critical from 15 failures on and
\* high below; 6 failures of one source 2 seconds apart give exactly one
\* such threat, of count 6 and severity high
C20_BruteForceFields ==
    Detected =>
        /\ \A t \in Range(ThreatsOfType("Brute Force Attack")) :
              /\ t.sourceIP \in SourceIPs
              /\ t.count = Len(FailuresOf(t.sourceIP))
              /\ t.mitreId = "T1110"
              /\ t.severity = (IF t.count >= 15 THEN "critical" ELSE "high")
        /\ \A ip \in SourceIPs :
              SixFailures(ip) =>
                  /\ Reported("Brute Force Attack", ip) = 1
                  /\ \A t \in Range(ThreatsOfType("Brute Force Attack")) :
                        t.sourceIP = ip => t.count = 6 /\ t.severity = "high"
                  /\ Len(entries) = 6 => Len(ThreatsOfType("Brute Force Attack")) = 1

\* the 6 failures 2 seconds apart are reported as high, next to a source
\* reported as critical for 15 failures or more, some of them without a
\* parseable timestamp
C20_Witness ==
    /\ Detected
    /\ \E ip \in SourceIPs :
          /\ SixFailures(ip)
          /\ \E t \in Range(ThreatsOfType("Brute Force Attack")) :
                t.sourceIP = ip /\ t.count = 6 /\ t.severity = "high"
    /\ \E t \in Range(ThreatsOfType("Brute Force Attack")) :
          /\ t.severity = "critical"
          /\ t.count >= 15
          /\ Len(ParseableTimes(FailuresOf(t.sourceIP))) < t.count

\* the entries of a source that carry a status code
Occurrences(ip, code) ==
    Count(RequestsOf(ip), LAMBDA e : e.statusCode = code)

StatusThreats ==
    SelectSeq(threats, LAMBDA t : t.type \in {"Unauthorized Access Attempts",
                                               "Server Error Spike"})

\* C21: detectSuspiciousStatusCodes reports a source and a status code
\* exactly when the code is 401, 403 or at least 500 and at least 10 entries
\* of the source carry it; the count is the number of these entries, the
\* severity critical from 50, high from 20 and medium below, the type and
\* the MITRE id 'Unauthorized Access Attempts' and T1078 for 401 and 403,
\* 'Server Error Spike' and T1190 for 500 and above
C21_StatusClusters ==
    Detected =>
        /\ \A ip \in SourceIPs : \A code \in StatusCodes :
              ReportedStatus(ip, code) >= 1
                <=> /\ code \in {401, 403} \/ code >= 500
                    /\ Occurrences(ip, code) >= 10
        /\ \A t \in Range(StatusThreats) :
              /\ t.count = Occurrences(t.sourceIP, t.descWindow)
              /\ t.severity = (IF t.count >= 50 THEN "critical"
                               ELSE IF t.count >= 20 THEN "high" ELSE "medium")
              /\ t.type = (IF t.descWindow \in {401, 403}
                           THEN "Unauthorized Access Attempts" ELSE "Server Error Spike")
              /\ t.mitreId = (IF t.descWindow \in {401, 403} THEN "T1078" ELSE "T1190")

\* the entries of a source with a status of 401, 403 or 404 that name a
\* restricted endpoint in their path or in their message
Refused(ip) ==
    SelectSeq(RequestsOf(ip),
              LAMBDA e : /\ e.statusCode \in {401, 403, 404}
                         /\ (e.path \in sensitivePatterns \/ e.message \in sensitivePatterns))

\* C22: detectUnauthorizedAccess reports a source, with severity high and
\* T1133, exactly when at least 5 of its entries have a status of 401, 403
\* or 404 and match a sensitive-endpoint pattern in their path or in their
\* message; the count is the number of these entries
C22_AdminAccess ==
    Detected =>
        /\ \A ip \in SourceIPs :
              Reported("Unauthorized Admin Access", ip) >= 1 <=> Len(Refused(ip)) >= 5
        /\ \A t \in Range(ThreatsOfType("Unauthorized Admin Access")) :
              /\ t.severity = "high"
              /\ t.mitreId = "T1133"
              /\ t.count = Len(Refused(t.sourceIP))

\* the entries of a source that isSuspiciousURL accepts
Exploits(ip) == SelectSeq(RequestsOf(ip), isSuspiciousURL)

\* C23: detectExploitAttempts reports every source that has an entry
\* classified as a suspicious URL exactly once, with T1190, the number of
\* these entries as count, severity critical from 5 of them and high below,
\* and no source without such an entry
C23_ExploitAttempts ==
    Detected =>
        /\ \A ip \in SourceIPs :
              Reported("Exploit Attempt", ip) = One(Len(Exploits(ip)) >= 1)
        /\ \A t \in Range(ThreatsOfType("Exploit Attempt")) :
              /\ t.mitreId = "T1190"
              /\ t.sourceIP \in SourceIPs =>
                    /\ t.count = Len(Exploits(t.sourceIP))
                    /\ t.severity = (IF t.count >= 5 THEN "critical" ELSE "high")

\* one source reported as critical for 5 suspicious requests or more,
\* another as high for one, and a third not at all
C23_Witness ==
    /\ Detected
    /\ \E t \in Range(ThreatsOfType("Exploit Attempt")) :
          t.sourceIP \in SourceIPs /\ t.count >= 5 /\ t.severity = "critical"
    /\ \E t \in Range(ThreatsOfType("Exploit Attempt")) :
          t.sourceIP \in SourceIPs /\ t.count = 1 /\ t.severity = "high"
    /\ \E ip \in SourceIPs : Reported("Exploit Attempt", ip) = 0

\* the distinct paths, other than the empty one, of the entries of a source
PathsOf(ip) == {e.path : e \in Range(RequestsOf(ip))} \ {""}

\* C24: detectPortScanning reports every source whose entries carry at
\* least 20 distinct paths exactly once, with severity medium and T1046, and
\* no source with fewer; the count is the number of distinct paths, not of
\* entries, and the evidence lists at most 10 of the paths
C24_PortScanning ==
    Detected =>
        /\ \A ip \in SourceIPs :
              Reported("Reconnaissance / Port Scanning", ip)
                = One(Cardinality(PathsOf(ip)) >= 20)
        /\ \A t \in Range(ThreatsOfType("Reconnaissance / Port Scanning")) :
              /\ t.sourceIP \in SourceIPs
              /\ t.severity = "medium"
              /\ t.mitreId = "T1046"
              /\ t.count = Cardinality(PathsOf(t.sourceIP))
              /\ Len(t.rawEvidence) <= 10
              /\ Range(t.rawEvidence) \subseteq PathsOf(t.sourceIP)
              /\ Cardinality(Range(t.rawEvidence)) = Len(t.rawEvidence)

\* a source reported for 25 paths in 30 entries, next to one that made 25
\* requests for one path and is not reported
C24_Witness ==
    /\ Detected
    /\ \E t \in Range(ThreatsOfType("Reconnaissance / Port Scanning")) :
          /\ t.count = 25
          /\ Len(RequestsOf(t.sourceIP)) > 25
          /\ Len(t.rawEvidence) = 10
    /\ \E ip \in SourceIPs :
          /\ Len(RequestsOf(ip)) >= 20
          /\ Reported("Reconnaissance / Port Scanning", ip) = 0

\* the Traffic Concentration anomalies of the analysis
Concentrations ==
    SelectSeq(analysis.anomalies, LAMBDA a : a.type = "Traffic Concentration")

\* C25: detectAnomalies reports a Traffic Concentration, of severity high,
\* for a source exactly when the source has more than 20 entries and more
\* than half of all the entries of the batch, those without a source
\* counted in; so a batch has at most one
C25_TrafficConcentration ==
    Analyzed =>
        /\ \A ip \in SourceIPs :
              Len(SelectSeq(Concentrations, LAMBDA a : a.subject = ip))
                = One(/\ Len(RequestsOf(ip)) > 20
                      /\ 2 * Len(RequestsOf(ip)) > Len(entries))
        /\ \A a \in Range(Concentrations) :
              a.subject \in SourceIPs /\ a.severity = "high"
        /\ Len(Concentrations) <= 1

\* a source with 21 entries is reported next to 20 entries without a source
C25_Witness ==
    /\ Analyzed
    /\ Len(Concentrations) = 1
    /\ Len(RequestsOf(Concentrations[1].subject)) = 21
    /\ Len(entries) = 41
    /\ Cardinality(SourceIPs) = 1

\* the entries with a parseable timestamp
Dated == SelectSeq(entries, LAMBDA e : ~isNaN(getTime(e)))

\* C26: the buckets of the timeline have distinct hour keys in ascending
\* order, their total counts add up to the number of entries with a
\* parseable timestamp, no bucket has more errors than entries, and their
\* threat counts add up to at most the number of threats: a threat created
\* in an hour without entries is counted nowhere and makes no bucket
C26_Timeline ==
    Analyzed =>
        LET timeline == analysis.timeline
        IN /\ \A i \in 1..Len(timeline) : \A j \in (i + 1)..Len(timeline) :
                 timeline[i].time < timeline[j].time
           /\ SumSeq(Map(timeline, LAMBDA b : b.total)) = Len(Dated)
           /\ \A i \in 1..Len(timeline) : timeline[i].errors <= timeline[i].total
           /\ SumSeq(Map(timeline, LAMBDA b : b.threats)) <= Len(usedThreats)
           /\ \A i \in 1..Len(timeline) :
                 \E e \in Range(Dated) : hourKey(getTime(e)) = timeline[i].time

\* a timeline of several hours whose entries came latest first, for a batch
\* with an entry without a date, and with one threat counted and one not
C26_Witness ==
    /\ Analyzed
    /\ Len(analysis.timeline) >= 2
    /\ Len(Dated) < Len(entries)
    /\ hourKey(getTime(Dated[1])) > hourKey(getTime(Dated[Len(Dated)]))
    /\ SumSeq(Map(analysis.timeline, LAMBDA b : b.threats)) = 1
    /\ Len(usedThreats) = 2

\* the requests that ask for a start, and those that ask for a stop
Starts == {WsStart, "POST /api/stream/start"}

Stops == {WsStop, "POST /api/stream/stop"}

Served(kinds) == calls' # calls /\ calls'[Len(calls')] \in kinds

\* C27: the StreamManager has at most one timer running, and isSimulating
\* is true exactly when one runs; a start while simulating makes no second
\* timer, and a stop while not simulating changes nothing and broadcasts
\* nothing
C27_OneTimer ==
    /\ [](/\ Cardinality(stream.timers) <= 1
          /\ stream.isSimulating <=> stream.timers # {}
          /\ stream.timers = {stream.simulationInterval} \ {0})
    /\ [][/\ (Served(Starts) /\ stream.isSimulating) => stream' = stream
          /\ (Served(Stops) /\ ~stream.isSimulating) => stream' = stream]_vars

\* the simulation runs after a start over the socket, a second start over
\* HTTP, a stop and a start again, and a stop had come before any start
C27_Witness ==
    /\ pc = "stream"
    /\ Len(calls) = 5
    /\ calls[1] \in Stops
    /\ calls[2] = WsStart
    /\ calls[3] = "POST /api/stream/start"
    /\ calls[4] \in Stops
    /\ calls[5] \in Starts
    /\ stream.isSimulating
    /\ Cardinality(stream.timers) = 1

\* the sessions that the upload completed
Completed == SelectSeq(db.analysis_sessions, LAMBDA r : r.status = "completed")

\* C28: for every completed session, the analysis that GET /analysis
\* computes from the stored rows has the riskScore that the upload stored
C28_SameRiskScore ==
    pc = "routes" =>
        \A i \in 1..Len(Completed) :
            getAnalysis(db, Completed[i].id, clock).riskScore = Completed[i].risk_score

\* C29: every row of log_entries and of threats names a session that
\* exists; a delete of a session that exists removes its row, its entries
\* and its threats together or, when SQLite refuses, nothing; a delete of
\* an unknown session changes nothing and answers 404
C29_NoOrphans ==
    /\ [](\A table \in {db.log_entries, db.threats} :
             \A i \in 1..Len(table) : SessionOf(db, table[i].session_id) # <<>>)
    /\ [][reply'.route = "DELETE /session" =>
            LET sessionId == reply'.sessionId
            IN IF SessionOf(db, sessionId) = <<>>
               THEN reply'.status = 404 /\ db' = db
               ELSE \/ /\ reply'.status = 200
                       /\ SessionOf(db', sessionId) = <<>>
                       /\ Where(db'.log_entries, sessionId) = <<>>
                       /\ Where(db'.threats, sessionId) = <<>>
                       /\ \A other \in SessionIds \ {sessionId} :
                             /\ SessionOf(db', other) = SessionOf(db, other)
                             /\ Where(db'.log_entries, other) = Where(db.log_entries, other)
                             /\ Where(db'.threats, other) = Where(db.threats, other)
                    \/ reply'.status = 500 /\ db' = db]_vars

\* the first session was deleted by the last request, and the second
\* one is kept with its entries and its threats
C29_Witness ==
    /\ pc = "routes"
    /\ reply = Answer("DELETE /session", 1, 200, 0)
    /\ SessionOf(db, 1) = <<>>
    /\ SessionOf(db, 2) # <<>>
    /\ Where(db.log_entries, 2) # <<>>
    /\ Where(db.threats, 2) # <<>>

\* C30: no session stays in status 'processing' once its upload request
\* is answered, also when a later step of the request failed
C30_NoneProcessing ==
    \A i \in 1..Len(db.analysis_sessions) :
        db.analysis_sessions[i].status = "completed"

====
